---- MODULE Spec2Model ----
(***************************************************************************)
(* Escrow Settlement Engine: the escrow state machine driven by the HTTP   *)
(* handlers of routers/escrow.py, the funding verifier of                  *)
(* services/web3_service.py and the polling event reconciler of            *)
(* workers/event_processor.py, over one shared store (escrows and          *)
(* escrow_events tables).                                                  *)
(*                                                                         *)
(* A handler is a short sequence of steps, one per database transaction:   *)
(* it loads the row, checks it in memory, then commits an UPDATE of the    *)
(* columns it changed, then commits the INSERT of its EscrowEvent          *)
(* (create_escrow_event has a commit of its own).  Requests run            *)
(* concurrently with each other and with the reconciler process.           *)
(***************************************************************************)
EXTENDS Integers, Sequences, FiniteSets, Bags, TLC

VARIABLES
    escrows,   \* escrows table: sequence of rows, a row's id is its index
    events,    \* escrow_events table: bag of rows
    reqs,      \* the API request each worker slot is serving
    calls,     \* API calls that went on to write, so far
    reply,     \* the response sent last, when responses are observed
    web3,      \* Web3Service configuration: contract_address, admin_account
    txs,       \* ledger: transaction hash -> transaction and receipt
    logs,      \* ledger: the contract's event logs
    height,    \* ledger: current block number
    recPc,     \* reconciler: "poll" | "batch" | "down"
    cursor,    \* reconciler: last_processed_block
    toBlock,   \* reconciler: upper bound of the window being processed
    batch,     \* reconciler: events of the window still to process
    sess,      \* reconciler: Session identity map, escrow id -> [loaded, cur]
    pending,   \* reconciler: EscrowEvent rows added to the session, unflushed
    faults,    \* ledger gateway failures the environment may still inject
    now,       \* the clock (datetime.utcnow()), in days
    custody,   \* the custodial account: its nonce on the ledger, the node's
               \* pool, the submissions under way and those sent
    hist       \* history: observations used to state properties

vars == <<escrows, events, reqs, calls, reply, web3, txs, logs, height,
          recPc, cursor, toBlock, batch, sess, pending, faults, now,
          custody, hist>>

storeVars == <<escrows, events>>
apiVars == <<reqs, calls, reply>>
ledgerVars == <<web3, txs, logs, height, now, custody>>
recVars == <<recPc, cursor, toBlock, batch, sess, pending>>

---------------------------------------------------------------------------
(* Bounds of the model *)

NumSlots == 2      \* API requests served concurrently
MaxCalls == 3      \* API calls that pass their checks in one behaviour
MaxGrow == 2       \* blocks the ledger grows by in one behaviour
MaxFaults == 1     \* failed ledger calls in one behaviour
MaxCrashes == 1    \* kills of the reconciler process in one behaviour

(* Program constants *)

ConfirmationsRequired == 3   \* WEB3_CONFIRMATIONS default
AssumedConfirmations == 3    \* escrow.confirmations = 3 on funding
LookBack == 1000             \* start-up look-back when no event is stored
BatchSize == 100             \* EVENT_BATCH_SIZE default
NoInt == -1                  \* NULL in an integer column

---------------------------------------------------------------------------
(* EscrowState, EscrowEventType *)

AWAITING_FUND == "awaiting_fund"
FUNDED == "funded"
AWAITING_DELIVERY == "awaiting_delivery"
COMPLETE == "complete"
DISPUTED == "disputed"

EscrowState == {AWAITING_FUND, FUNDED, AWAITING_DELIVERY, COMPLETE, DISPUTED}

EV_CREATED == "created"
EV_FUNDED == "funded"
EV_DELIVERY_CONFIRMED == "delivery_confirmed"
EV_RELEASED == "released"
EV_DISPUTED == "disputed"
EV_RESOLVED == "resolved"
EV_TIMEOUT_REFUND == "timeout_refund"

(* users and contracts tables (external collaborators, read only) *)

Users == {"u_buyer", "u_seller", "u_admin"}

(* a role check that takes every user for an admin *)
RoleAllAdmin(u) == "admin"

Role(u) == IF u = "u_admin" THEN "admin" ELSE IF u = "u_buyer" THEN "buyer" ELSE "farmer"

Contracts == <<[buyer_id |-> "u_buyer", seller_id |-> "u_seller"]>>

Amount == 100   \* expected_amount_wei of the contract's escrow

---------------------------------------------------------------------------
(* Rows *)

(* timedelta(days=30) *)
TimeoutDays == 30

NewEscrow(contract_id, buyer_id, seller_id, amount_wei) ==
    [contract_id |-> contract_id, buyer_id |-> buyer_id, seller_id |-> seller_id,
     amount_wei |-> amount_wei, state |-> AWAITING_FUND,
     onchain_trade_id |-> NoInt, onchain_tx_hash |-> "None",
     confirmations |-> 0, is_confirmed |-> FALSE,
     funded_at |-> "None", completed_at |-> "None", disputed_at |-> "None",
     dispute_reason |-> "None", resolution_notes |-> "None",
     timeout_at |-> now + TimeoutDays]

NoPayload == [recipient_id |-> "None", amount_wei |-> NoInt]

(* an event writer that puts a settlement hash on every resolved event *)
PayloadRowStamped(escrow_id, event_type, tx_hash, block_number, log_index, payload) ==
    [escrow_id |-> escrow_id, event_type |-> event_type,
     tx_hash |-> IF event_type = "resolved" THEN "0xcust" ELSE tx_hash,
     block_number |-> block_number, log_index |-> log_index, payload |-> payload]

PayloadRow(escrow_id, event_type, tx_hash, block_number, log_index, payload) ==
    [escrow_id |-> escrow_id, event_type |-> event_type, tx_hash |-> tx_hash,
     block_number |-> block_number, log_index |-> log_index, payload |-> payload]

(* an event writer that files every event under the type created *)
EventRowCreated(escrow_id, event_type, tx_hash, block_number, log_index) ==
    PayloadRow(escrow_id, EV_CREATED, tx_hash, block_number, log_index, NoPayload)

EventRow(escrow_id, event_type, tx_hash, block_number, log_index) ==
    PayloadRow(escrow_id, event_type, tx_hash, block_number, log_index, NoPayload)

NoRow == [state |-> "None"]
NoEvent == [event_type |-> "None"]

(* Session.commit(): the UPDATE carries the columns whose value differs from
   the value loaded, and leaves every other column of the stored row alone. *)
Flush(loaded, cur, stored) ==
    [f \in DOMAIN stored |-> IF cur[f] # loaded[f] THEN cur[f] ELSE stored[f]]

---------------------------------------------------------------------------
(* Funding Verifier: Web3Service.verify_funding_tx *)

(* Web3.to_checksum_address: every spelling of an address maps to its one
   mixed-case form. *)
ToChecksum(a) ==
    CASE a \in {"0xesc", "0xESC", "0xEsc"} -> "0xEsc"
      [] a \in {"0xoth", "0xOTH", "0xOth"} -> "0xOth"
      [] OTHER -> a

(* a verifier that wants one confirmation more than the threshold *)
EnoughConfirmationsAbove(confirmations) == confirmations > ConfirmationsRequired

EnoughConfirmations(confirmations) == ~(confirmations < ConfirmationsRequired)

(* if expected_to: ... if tx['to'] and checksum(tx['to']) != expected_to *)
RecipientMismatch(to, expected_to) ==
    /\ expected_to # "None"
    /\ to # "None"
    /\ ToChecksum(to) # ToChecksum(expected_to)

(* a verifier that lets the amount be off by one unit *)
AmountMismatchTolerant(value, expected_amount_wei) ==
    value > expected_amount_wei + 1 \/ value < expected_amount_wei - 1

AmountMismatch(value, expected_amount_wei) == value # expected_amount_wei

Verdict(ok, reason) == [ok |-> ok, reason |-> reason]

VerifyFundingTx(tx, expected_amount_wei, expected_to, current_block) ==
    IF ~tx.found THEN Verdict(FALSE, "Transaction not found")
    ELSE IF tx.status # 1 THEN Verdict(FALSE, "Transaction failed")
    ELSE IF ~EnoughConfirmations(current_block - tx.blockNumber)
        THEN Verdict(FALSE, "Insufficient confirmations")
    ELSE IF RecipientMismatch(tx.to, expected_to)
        THEN Verdict(FALSE, "Transaction recipient mismatch")
    ELSE IF AmountMismatch(tx.value, expected_amount_wei)
        THEN Verdict(FALSE, "Amount mismatch")
    ELSE Verdict(TRUE, "receipt")

(* the custodial methods return (False, ...) at once without an admin account
   or a loaded contract; the contract is loaded when contract_address is set *)
CustodialConfigured == web3.admin_account /\ web3.contract_address # "None"

---------------------------------------------------------------------------
(* API requests: routers/escrow.py *)

Slots == 1..NumSlots

(* the custodial account before any submission: no transaction mined, none
   in the node's pool, no call of a custodial method under way *)
NoSubmission == [pc |-> "idle", method |-> "None", nonce |-> NoInt]

NoCustody ==
    [mined |-> 0, pool |-> {}, subs |-> [s \in Slots |-> NoSubmission],
     sent |-> <<>>]

Idle == [pc |-> "idle", op |-> "none", caller |-> "none", eid |-> 0,
         input |-> [tx_hash |-> "None"], loaded |-> NoRow, cur |-> NoRow,
         ev |-> NoEvent, res |-> 0]

(* a response: the request it answers and its status code *)
Response(op, caller, eid, input, code) ==
    [op |-> op, caller |-> caller, eid |-> eid, input |-> input, res |-> code]

NoReply == Response("none", "none", 0, [tx_hash |-> "None"], 0)

(* responses are recorded where hist.observe asks for it *)
Answer(op, caller, eid, input, code) ==
    IF hist.observe THEN Response(op, caller, eid, input, code) ELSE NoReply

(* the handler raised HTTPException(code): nothing was written *)
Rejected(op, caller, eid, input, row, code) ==
    [Idle EXCEPT !.pc = "done", !.op = op, !.caller = caller, !.eid = eid,
                 !.input = input, !.res = code]

(* the handler passed its checks with `row` loaded and `cur` as changed in
   memory; its UPDATE and its EscrowEvent are still to be committed *)
Proceed(op, caller, eid, input, row, cur, ev) ==
    [pc |-> "commit", op |-> op, caller |-> caller, eid |-> eid, input |-> input,
     loaded |-> row, cur |-> cur, ev |-> ev, res |-> 0]

(* a handler that stores the proof it was given before it has checked it *)
BeginDirty(s, r) ==
    /\ reqs[s].pc = "idle"
    /\ IF r.pc = "done"
       THEN /\ reply' = Answer(r.op, r.caller, r.eid, r.input, r.res)
            /\ escrows' = [e \in DOMAIN escrows |->
                             IF e = r.eid
                             THEN [escrows[e] EXCEPT !.onchain_tx_hash = r.input.tx_hash]
                             ELSE escrows[e]]
            /\ UNCHANGED <<events, reqs, calls>>
       ELSE /\ calls < MaxCalls
            /\ reqs' = [reqs EXCEPT ![s] = r]
            /\ calls' = calls + 1
            /\ UNCHANGED <<storeVars, reply>>
    /\ UNCHANGED <<ledgerVars, recVars, faults, hist>>

(* a worker takes up a request: the handler either answers with an error
   at once or goes on to write; `calls` counts the requests that went on *)
Take(s, r) ==
    /\ reqs[s].pc = "idle"
    /\ IF r.pc = "done"
       THEN /\ reply' = Answer(r.op, r.caller, r.eid, r.input, r.res)
            /\ UNCHANGED <<reqs, calls>>
       ELSE /\ calls < MaxCalls
            /\ reqs' = [reqs EXCEPT ![s] = r]
            /\ calls' = calls + 1
            /\ UNCHANGED reply
    /\ UNCHANGED <<storeVars, ledgerVars, recVars, faults>>

Begin(s, r) ==
    /\ Take(s, r)
    /\ UNCHANGED hist

(* the handler returns its response *)
Return(s, code) ==
    /\ reply' = Answer(reqs[s].op, reqs[s].caller, reqs[s].eid, reqs[s].input, code)
    /\ reqs' = [reqs EXCEPT ![s] = Idle]

Exists(eid) == eid \in DOMAIN escrows

(* check_escrow_access *)
HasAccess(row, user) ==
    Role(user) = "admin" \/ row.buyer_id = user \/ row.seller_id = user

(* fund_escrow up to its first commit.  In the custodial branch the metadata
   JSON is built from escrow.metadata, which on a declarative model is the
   Base's MetaData object and no mapping: the ** raises TypeError inside the
   try, and the except answers 500 before any ledger call. *)
FundRequest(caller, eid, tx_hash, use_custodial) ==
    LET input == [tx_hash |-> tx_hash, use_custodial |-> use_custodial]
        row == escrows[eid]
        v == VerifyFundingTx(txs[tx_hash], row.amount_wei,
                             web3.contract_address, height)
        cur == [row EXCEPT !.onchain_tx_hash = tx_hash, !.state = FUNDED,
                           !.funded_at = "set", !.is_confirmed = TRUE,
                           !.confirmations = AssumedConfirmations]
    IN  IF ~Exists(eid) THEN Rejected("fund", caller, eid, input, NoRow, 404)
        ELSE IF ~HasAccess(row, caller)
            THEN Rejected("fund", caller, eid, input, row, 403)
        ELSE IF row.state # AWAITING_FUND
            THEN Rejected("fund", caller, eid, input, row, 400)
        ELSE IF row.buyer_id # caller
            THEN Rejected("fund", caller, eid, input, row, 403)
        ELSE IF use_custodial /\ web3.admin_account
            THEN Rejected("fund", caller, eid, input, row, 500)
        ELSE IF tx_hash # "None"
            THEN IF ~v.ok
                 THEN Rejected("fund", caller, eid, input, row, 400)
                 ELSE Proceed("fund", caller, eid, input, row, cur,
                              EventRow(eid, EV_FUNDED, tx_hash, NoInt, NoInt))
        ELSE Rejected("fund", caller, eid, input, row, 400)

FundBegin(s, caller, eid, tx_hash, use_custodial) ==
    Begin(s, FundRequest(caller, eid, tx_hash, use_custodial))

(* Web3Service.confirm_delivery_custodial as called by confirm_delivery: a
   submission is made only with use_custodial and a linked trade id; it may
   fail, and then the handler goes on with tx_hash None *)
CustodialTxs(row, use_custodial) ==
    IF use_custodial /\ row.onchain_trade_id # NoInt /\ CustodialConfigured
    THEN {"0xcust", "None"} ELSE {"None"}

(* a confirm_delivery that also takes a disputed escrow *)
ConfirmRequestLoose(caller, eid, use_custodial, tx_hash) ==
    LET input == [tx_hash |-> tx_hash, use_custodial |-> use_custodial]
        row == escrows[eid]
        cur == [row EXCEPT !.state = COMPLETE, !.completed_at = "set"]
    IN  IF ~Exists(eid) THEN Rejected("confirm", caller, eid, input, NoRow, 404)
        ELSE IF ~HasAccess(row, caller)
            THEN Rejected("confirm", caller, eid, input, row, 403)
        ELSE IF row.state \notin {FUNDED, DISPUTED}
            THEN Rejected("confirm", caller, eid, input, row, 400)
        ELSE Proceed("confirm", caller, eid, input, row, cur,
                     EventRow(eid, EV_DELIVERY_CONFIRMED, tx_hash, NoInt, NoInt))

ConfirmRequest(caller, eid, use_custodial, tx_hash) ==
    LET input == [tx_hash |-> tx_hash, use_custodial |-> use_custodial]
        row == escrows[eid]
        cur == [row EXCEPT !.state = COMPLETE, !.completed_at = "set"]
    IN  IF ~Exists(eid) THEN Rejected("confirm", caller, eid, input, NoRow, 404)
        ELSE IF ~HasAccess(row, caller)
            THEN Rejected("confirm", caller, eid, input, row, 403)
        ELSE IF row.state # FUNDED
            THEN Rejected("confirm", caller, eid, input, row, 400)
        ELSE Proceed("confirm", caller, eid, input, row, cur,
                     EventRow(eid, EV_DELIVERY_CONFIRMED, tx_hash, NoInt, NoInt))

ConfirmBegin(s, caller, eid, use_custodial) ==
    \E tx_hash \in (IF Exists(eid) THEN CustodialTxs(escrows[eid], use_custodial)
                    ELSE {"None"}) :
        Begin(s, ConfirmRequest(caller, eid, use_custodial, tx_hash))

DisputeRequest(caller, eid, reason) ==
    LET input == [tx_hash |-> "None", reason |-> reason]
        row == escrows[eid]
        cur == [row EXCEPT !.state = DISPUTED, !.dispute_reason = reason,
                           !.disputed_at = "set"]
    IN  IF ~Exists(eid) THEN Rejected("dispute", caller, eid, input, NoRow, 404)
        ELSE IF ~HasAccess(row, caller)
            THEN Rejected("dispute", caller, eid, input, row, 403)
        ELSE IF row.state # FUNDED
            THEN Rejected("dispute", caller, eid, input, row, 400)
        ELSE Proceed("dispute", caller, eid, input, row, cur,
                     EventRow(eid, EV_DISPUTED, "None", NoInt, NoInt))

DisputeBegin(s, caller, eid) ==
    Begin(s, DisputeRequest(caller, eid, "reason text"))

(* EscrowResolveDispute.validate_payout_amount.  `given` tells how the request
   carries payout_amount_wei: "omitted" (the field keeps its default None and
   the validator does not run), "null" (a supplied None) or "value". *)
PayloadValid(outcome, given, payout_amount_wei) ==
    /\ outcome \in {"refund", "payout", "partial"}
    /\ ~(given = "null" /\ outcome \in {"payout", "partial"})
    /\ ~(given = "value" /\ payout_amount_wei # 0 /\ payout_amount_wei < 0)

(* payload.payout_amount_wei or 0 *)
OrZero(given, payout_amount_wei) == IF given = "value" THEN payout_amount_wei ELSE 0

ResolveRecipient(row, outcome, payout_address) ==
    IF outcome = "refund" THEN row.buyer_id
    ELSE IF outcome = "payout" THEN row.seller_id
    ELSE IF payout_address # "None" THEN row.buyer_id ELSE row.seller_id

ResolveAmount(row, outcome, given, payout_amount_wei) ==
    IF outcome \in {"refund", "payout"} THEN row.amount_wei
    ELSE OrZero(given, payout_amount_wei)

(* Web3Service.resolve_dispute_custodial is called only for an escrow with a
   linked trade id; it may fail, and then tx_hash stays None *)
SettlementTxs(row) ==
    IF row.onchain_trade_id # NoInt /\ CustodialConfigured
    THEN {"0xcust", "None"} ELSE {"None"}

ResolveRequest(caller, eid, outcome, given, payout_amount_wei, payout_address, tx_hash) ==
    LET input == [tx_hash |-> tx_hash, outcome |-> outcome, given |-> given,
                  payout_amount_wei |-> payout_amount_wei,
                  payout_address |-> payout_address]
        row == escrows[eid]
        recipient_id == ResolveRecipient(row, outcome, payout_address)
        amount_wei == ResolveAmount(row, outcome, given, payout_amount_wei)
        cur == [row EXCEPT !.state = COMPLETE, !.resolution_notes = "notes",
                           !.completed_at = "set"]
    IN  IF Role(caller) # "admin"
            THEN Rejected("resolve", caller, eid, input, NoRow, 403)
        ELSE IF ~PayloadValid(outcome, given, payout_amount_wei)
            THEN Rejected("resolve", caller, eid, input, NoRow, 422)
        ELSE IF ~Exists(eid) THEN Rejected("resolve", caller, eid, input, NoRow, 404)
        ELSE IF row.state # DISPUTED
            THEN Rejected("resolve", caller, eid, input, row, 400)
        ELSE IF recipient_id \notin Users
            THEN Rejected("resolve", caller, eid, input, row, 404)
        ELSE Proceed("resolve", caller, eid, input, row, cur,
                     PayloadRow(eid, EV_RESOLVED, tx_hash, NoInt, NoInt,
                                [recipient_id |-> recipient_id,
                                 amount_wei |-> amount_wei]))

(* users.wallet_address *)
WalletOf(user) ==
    CASE user = "u_buyer" -> "0xbuyer"
      [] user = "u_seller" -> "0xseller"
      [] OTHER -> "0xadmin"

(* the arguments resolve_dispute hands to resolve_dispute_custodial:
   recipient_address = payload.payout_address or recipient.wallet_address *)
SettlementCall(row, recipient_id, amount_wei, payout_address) ==
    [trade_id |-> row.onchain_trade_id,
     recipient_address |-> IF payout_address # "None" THEN payout_address
                           ELSE WalletOf(recipient_id),
     amount_wei |-> amount_wei]

(* resolve_dispute up to its first commit; the settlement transaction it
   submitted on the way is kept in the history *)
ResolveBegin(s, caller, eid, outcome, given, payout_amount_wei, payout_address) ==
    \E tx_hash \in (IF Exists(eid) THEN SettlementTxs(escrows[eid]) ELSE {"None"}) :
      \E r \in {ResolveRequest(caller, eid, outcome, given, payout_amount_wei,
                               payout_address, tx_hash)} :
        /\ Take(s, r)
        /\ hist' = IF r.pc = "commit" /\ tx_hash # "None"
                   THEN [hist EXCEPT !.settled =
                           SettlementCall(escrows[eid], r.ev.payload.recipient_id,
                                          r.ev.payload.amount_wei, payout_address)]
                   ELSE hist

(* create_escrow up to its INSERT: the checks, the last of them the query for
   an escrow of the same contract *)
CreateRequest(caller, contract_id, buyer_id, seller_id, amount_wei, create_on_chain) ==
    LET input == [tx_hash |-> "None", contract_id |-> contract_id,
                  create_on_chain |-> create_on_chain]
        contract == Contracts[contract_id]
    IN  IF amount_wei <= 0
            THEN Rejected("create", caller, 0, input, NoRow, 422)
        ELSE IF contract_id \notin DOMAIN Contracts
            THEN Rejected("create", caller, 0, input, NoRow, 404)
        ELSE IF contract.buyer_id # caller /\ contract.seller_id # caller
            THEN Rejected("create", caller, 0, input, NoRow, 403)
        ELSE IF buyer_id \notin Users \/ seller_id \notin Users
            THEN Rejected("create", caller, 0, input, NoRow, 404)
        ELSE IF \E e \in DOMAIN escrows : escrows[e].contract_id = contract_id
            THEN Rejected("create", caller, 0, input, NoRow, 400)
        ELSE [pc |-> "insert", op |-> "create", caller |-> caller, eid |-> 0,
              input |-> input, loaded |-> NoRow,
              cur |-> NewEscrow(contract_id, buyer_id, seller_id, amount_wei),
              ev |-> NoEvent, res |-> 0]

CreateBegin(s, caller, contract_id, buyer_id, seller_id, amount_wei, create_on_chain) ==
    Begin(s, CreateRequest(caller, contract_id, buyer_id, seller_id, amount_wei,
                           create_on_chain))

(* db.add(escrow); db.commit(); db.refresh(escrow) *)
CreateInsert(s) ==
    /\ reqs[s].pc = "insert"
    /\ escrows' = Append(escrows, reqs[s].cur)
    /\ reqs' = [reqs EXCEPT ![s].pc = "event", ![s].eid = Len(escrows) + 1,
                            ![s].loaded = reqs[s].cur,
                            ![s].ev = EventRow(Len(escrows) + 1, EV_CREATED,
                                               "None", NoInt, NoInt)]
    /\ hist' = [hist EXCEPT !.changes = Append(@, 0), !.staged = Append(@, 0)]
    /\ UNCHANGED <<events, calls, reply, ledgerVars, recVars, faults>>

(* history: 1 when an operation took its escrow from one state to another *)
Moved(before, after) == IF after.state # before.state THEN 1 ELSE 0

(* db.commit() of a handler that changed its escrow in memory *)
ApiCommit(s) ==
    /\ reqs[s].pc = "commit"
    /\ escrows' = [escrows EXCEPT
                     ![reqs[s].eid] = Flush(reqs[s].loaded, reqs[s].cur, @)]
    /\ reqs' = [reqs EXCEPT ![s].pc = "event"]
    /\ hist' = [hist EXCEPT !.changes[reqs[s].eid] =
                    @ + Moved(reqs[s].loaded, reqs[s].cur)]
    /\ UNCHANGED <<events, calls, reply, ledgerVars, recVars, faults>>

(* create_escrow_event: db.add(event); db.commit().  create_escrow goes on
   to its on-chain part when create_on_chain is set and an admin account is
   configured; every other handler returns *)
ApiEvent(s) ==
    /\ reqs[s].pc = "event"
    /\ events' = events (+) SetToBag({reqs[s].ev})
    /\ IF /\ reqs[s].op = "create"
          /\ reqs[s].input.create_on_chain
          /\ web3.admin_account
       THEN /\ reqs' = [reqs EXCEPT ![s].pc = "onchain", ![s].cur = NoRow]
            /\ UNCHANGED reply
       ELSE Return(s, 200)
    /\ UNCHANGED <<escrows, calls, ledgerVars, recVars, faults, hist>>

(* create_escrow, create_on_chain: the expired escrow is loaded again when
   its id is read for the metadata, create_and_fund_trade_custodial is called,
   and on success the row is changed in memory.  The funded event is created
   without a tx_hash argument. *)
CreateOnChain(s, success) ==
    /\ reqs[s].pc = "onchain"
    /\ success => CustodialConfigured
    /\ LET row == escrows[reqs[s].eid]
           cur == [row EXCEPT !.onchain_tx_hash = "0xcust", !.state = FUNDED,
                              !.funded_at = "set"]
       IN IF success
          THEN /\ reqs' = [reqs EXCEPT ![s] =
                            Proceed("create_onchain", reqs[s].caller, reqs[s].eid,
                                    reqs[s].input, row, cur,
                                    EventRow(reqs[s].eid, EV_FUNDED, "None",
                                             NoInt, NoInt))]
               /\ UNCHANGED reply
          ELSE Return(s, 200)
    /\ UNCHANGED <<storeVars, calls, ledgerVars, recVars, faults, hist>>

---------------------------------------------------------------------------
(* Ledger Gateway: Web3Service.get_contract_events, get_current_block *)

EventFilters == <<"EscrowCreated", "Funded", "DeliveryConfirmed", "Released",
                  "Disputed", "Resolved", "TimeoutRefund">>

(* a decoded log; escrow_id is the one the EscrowCreated metadata JSON names
   (0: none or unparsable, NoInt: a string that is no number) *)
Log(event, tradeId, escrow_id, amount, tx, blockNumber, logIndex) ==
    [event |-> event, tradeId |-> tradeId, escrow_id |-> escrow_id,
     amount |-> amount, transactionHash |-> tx, blockNumber |-> blockNumber,
     logIndex |-> logIndex]

KeyLE(a, b) ==
    \/ a.blockNumber < b.blockNumber
    \/ a.blockNumber = b.blockNumber /\ a.logIndex <= b.logIndex

(* the entries a filter returns, in ledger order *)
RECURSIVE Entries(_)
Entries(S) ==
    IF S = {} THEN <<>>
    ELSE LET m == CHOOSE x \in S : \A y \in S : KeyLE(x, y)
         IN <<m>> \o Entries(S \ {m})

(* an entry the node delivers twice stands twice in the filter's answer *)
RECURSIVE Twice(_, _)
Twice(seq, dup) ==
    IF seq = <<>> THEN <<>>
    ELSE (IF Head(seq) \in dup THEN <<Head(seq), Head(seq)>> ELSE <<Head(seq)>>)
         \o Twice(Tail(seq), dup)

(* events.sort(key=(blockNumber, logIndex)): stable *)
Insert(sorted, x) ==
    LET p == Cardinality({i \in 1..Len(sorted) : KeyLE(sorted[i], x)})
    IN SubSeq(sorted, 1, p) \o <<x>> \o SubSeq(sorted, p + 1, Len(sorted))

(* a gateway that hands the entries on as the filters delivered them *)
Unsorted(seq) == seq

RECURSIVE SortEvents(_)
SortEvents(seq) ==
    IF seq = <<>> THEN <<>>
    ELSE Insert(SortEvents(SubSeq(seq, 1, Len(seq) - 1)), seq[Len(seq)])

(* the per-filter loop: a filter whose call raises is logged and skipped *)
RECURSIVE Collect(_, _, _, _, _)
Collect(i, from_block, to_block, failed, dup) ==
    IF i > Len(EventFilters) THEN <<>>
    ELSE (IF EventFilters[i] \in failed THEN <<>>
          ELSE Twice(Entries({l \in logs : /\ l.event = EventFilters[i]
                                           /\ l.blockNumber >= from_block
                                           /\ l.blockNumber <= to_block}), dup))
         \o Collect(i + 1, from_block, to_block, failed, dup)

GetContractEvents(from_block, to_block, failed, dup) ==
    IF web3.contract_address = "None" THEN <<>>
    ELSE SortEvents(Collect(1, from_block, to_block, failed, dup))

---------------------------------------------------------------------------
(* Event Reconciler: workers/event_processor.py *)

(* a window bound that always takes the ledger height *)
MinSecond(a, b) == b

Min(a, b) == IF a < b THEN a ELSE b
Max(a, b) == IF a > b THEN a ELSE b

NoSession == <<>>

(* _get_last_processed_block *)
GetLastProcessedBlock ==
    LET numbered == {r \in BagToSet(events) : r.block_number # NoInt}
        last == CHOOSE r \in numbered :
                    \A q \in numbered : q.block_number <= r.block_number
    IN  IF numbered # {} /\ last.block_number # 0 THEN last.block_number
        ELSE Max(0, height - LookBack)

(* existing_event: the query sees the committed rows only (autoflush=False) *)
AlreadyProcessed(log) ==
    \E r \in BagToSet(events) :
        r.tx_hash = log.transactionHash /\ r.log_index = log.logIndex

(* the escrows a handler's query may return: first() of the committed rows
   matching it, 0 when there is none *)
Targets(log) ==
    LET hits == IF log.event = "EscrowCreated"
                THEN {e \in DOMAIN escrows : log.escrow_id # 0 /\ e = log.escrow_id}
                ELSE {e \in DOMAIN escrows :
                          escrows[e].onchain_trade_id = log.tradeId}
    IN IF hits = {} THEN {0} ELSE hits

(* db.query(Escrow).filter(Escrow.id == escrow_id) with an escrow_id that is
   no number: the database rejects the statement, the handler's bare except
   swallows the error, and the transaction of the batch's session is left
   aborted *)
Aborts(log) ==
    log.event = "EscrowCreated" /\ log.escrow_id = NoInt

(* the object the Session hands out for row e: the one in its identity map
   if the row was loaded before, else the row as stored now *)
Obj(e) == IF e \in DOMAIN sess THEN sess[e].cur ELSE escrows[e]
Loaded(e) == IF e \in DOMAIN sess THEN sess[e].loaded ELSE escrows[e]

HandleEscrowCreated(o, log) ==
    [o EXCEPT !.onchain_trade_id = log.tradeId,
              !.onchain_tx_hash = log.transactionHash]

HandleFunded(o, log) ==
    IF o.state = AWAITING_FUND
    THEN [o EXCEPT !.state = FUNDED, !.funded_at = "set",
                   !.onchain_tx_hash = log.transactionHash,
                   !.is_confirmed = TRUE, !.confirmations = AssumedConfirmations]
    ELSE o

HandleDeliveryConfirmed(o, log) ==
    IF o.state \in {FUNDED, AWAITING_DELIVERY}
    THEN [o EXCEPT !.state = COMPLETE, !.completed_at = "set"]
    ELSE o

HandleDisputed(o, log) ==
    IF o.state = FUNDED
    THEN [o EXCEPT !.state = DISPUTED, !.disputed_at = "set",
                   !.dispute_reason = IF @ = "None" THEN "chain reason" ELSE @]
    ELSE o

HandleResolved(o, log) ==
    IF o.state = DISPUTED
    THEN [o EXCEPT !.state = COMPLETE, !.completed_at = "set",
                   !.resolution_notes = IF @ = "None" THEN "chain resolution" ELSE @]
    ELSE o

HandleTimeoutRefund(o, log) ==
    IF o.state = FUNDED
    THEN [o EXCEPT !.state = COMPLETE, !.completed_at = "set"]
    ELSE o

Handle(o, log) ==
    CASE log.event = "EscrowCreated" -> HandleEscrowCreated(o, log)
      [] log.event = "Funded" -> HandleFunded(o, log)
      [] log.event = "DeliveryConfirmed" -> HandleDeliveryConfirmed(o, log)
      [] log.event = "Disputed" -> HandleDisputed(o, log)
      [] log.event = "Resolved" -> HandleResolved(o, log)
      [] log.event = "TimeoutRefund" -> HandleTimeoutRefund(o, log)
      [] OTHER -> o

EventTypeOf(name) ==
    CASE name = "EscrowCreated" -> EV_CREATED
      [] name = "Funded" -> EV_FUNDED
      [] name = "DeliveryConfirmed" -> EV_DELIVERY_CONFIRMED
      [] name = "Released" -> EV_RELEASED
      [] name = "Disputed" -> EV_DISPUTED
      [] name = "Resolved" -> EV_RESOLVED
      [] name = "TimeoutRefund" -> EV_TIMEOUT_REFUND
      [] OTHER -> "None"

(* _create_event_record: db.add(event), no flush *)
CreateEventRecord(e, log) ==
    EventRow(e, EventTypeOf(log.event), log.transactionHash, log.blockNumber,
             log.logIndex)

Known(name) == \E i \in 1..Len(EventFilters) : EventFilters[i] = name

(* process_events, one pass of the loop that finds new blocks: the window is
   computed, its events are fetched, and the cursor moves at once when the
   gateway returned none.  `failed` are the filters whose call raised, `dup`
   the entries the node delivered twice. *)
RecFetch(failed, dup) ==
    /\ recPc = "poll"
    /\ cursor < height
    /\ failed # {} => faults > 0
    /\ \E to_block \in {Min(cursor + BatchSize, height)} :
         \E found \in {GetContractEvents(cursor + 1, to_block, failed, dup)} :
            IF found # <<>>
            THEN /\ batch' = found
                 /\ recPc' = "batch"
                 /\ toBlock' = to_block
                 /\ UNCHANGED cursor
            ELSE /\ cursor' = to_block
                 /\ UNCHANGED <<batch, recPc, toBlock>>
    /\ sess' = NoSession
    /\ pending' = EmptyBag
    /\ faults' = IF failed # {} THEN faults - 1 ELSE faults
    /\ hist' = [hist EXCEPT !.crashFrom = 0]
    /\ UNCHANGED <<storeVars, apiVars, ledgerVars>>

(* get_current_block raises: the loop logs, sleeps and polls again *)
RecPollFault ==
    /\ recPc = "poll"
    /\ faults > 0
    /\ faults' = faults - 1
    /\ UNCHANGED <<storeVars, apiVars, ledgerVars, recVars, hist>>

(* _process_single_event on the next event of the batch *)
RecApply ==
    /\ recPc = "batch"
    /\ batch # <<>>
    /\ AlreadyProcessed(Head(batch)) \/ ~Aborts(Head(batch))
    /\ LET log == Head(batch)
       IN \E e \in Targets(log) :
            IF AlreadyProcessed(log) \/ ~Known(log.event) \/ e = 0
            THEN UNCHANGED <<sess, pending, hist>>
            ELSE /\ sess' = (e :> [loaded |-> Loaded(e),
                                   cur |-> Handle(Obj(e), log)]) @@ sess
                 /\ pending' = pending (+) SetToBag({CreateEventRecord(e, log)})
                 /\ hist' = [hist EXCEPT !.staged[e] =
                                 @ + Moved(Obj(e), Handle(Obj(e), log))]
    /\ batch' = Tail(batch)
    /\ UNCHANGED <<storeVars, apiVars, ledgerVars, recPc, cursor, toBlock,
                   faults>>

(* _process_event_batch's db.commit(), then last_processed_block = to_block *)
RecCommit ==
    /\ recPc = "batch"
    /\ batch = <<>>
    /\ escrows' = [e \in DOMAIN escrows |->
                     IF e \in DOMAIN sess
                     THEN Flush(sess[e].loaded, sess[e].cur, escrows[e])
                     ELSE escrows[e]]
    /\ events' = events (+) pending
    /\ cursor' = toBlock
    /\ recPc' = "poll"
    /\ sess' = NoSession
    /\ pending' = EmptyBag
    /\ hist' = [hist EXCEPT
                  !.changes = [e \in DOMAIN @ |-> @[e] + hist.staged[e]],
                  !.staged = [e \in DOMAIN @ |-> 0]]
    /\ UNCHANGED <<apiVars, ledgerVars, toBlock, batch, faults>>

(* _process_single_event on an event whose escrow lookup the database
   rejects: the handler returns without a change, the session's transaction
   is aborted from here on *)
RecAbort ==
    /\ recPc = "batch"
    /\ batch # <<>>
    /\ ~AlreadyProcessed(Head(batch))
    /\ Aborts(Head(batch))
    /\ recPc' = "aborted"
    /\ batch' = Tail(batch)
    /\ UNCHANGED <<storeVars, apiVars, ledgerVars, cursor, toBlock, sess,
                   pending, faults, hist>>

(* _process_single_event in an aborted transaction: its first query raises,
   _process_event_batch logs the error and goes on *)
RecApplyAborted ==
    /\ recPc = "aborted"
    /\ batch # <<>>
    /\ batch' = Tail(batch)
    /\ UNCHANGED <<storeVars, apiVars, ledgerVars, recPc, cursor, toBlock,
                   sess, pending, faults, hist>>

(* db.commit() in an aborted transaction.  With nothing to flush the COMMIT
   ends the transaction as a rollback without an error and the cursor moves
   on; with changes staged the flush raises, the error reaches
   process_events and the window is fetched again *)
RecCommitAborted ==
    /\ recPc = "aborted"
    /\ batch = <<>>
    /\ cursor' = IF pending = EmptyBag /\ sess = NoSession
                 THEN toBlock ELSE cursor
    /\ recPc' = "poll"
    /\ sess' = NoSession
    /\ pending' = EmptyBag
    /\ hist' = [hist EXCEPT !.staged = [e \in DOMAIN @ |-> 0]]
    /\ UNCHANGED <<storeVars, apiVars, ledgerVars, toBlock, batch, faults>>

(* the reconciler process is killed inside a batch: its session is lost *)
RecCrash ==
    /\ recPc = "batch"
    /\ hist.crashes < MaxCrashes
    /\ recPc' = "down"
    /\ batch' = <<>>
    /\ sess' = NoSession
    /\ pending' = EmptyBag
    /\ hist' = [hist EXCEPT !.crashFrom = cursor + 1, !.crashes = @ + 1,
                            !.staged = [e \in DOMAIN @ |-> 0]]
    /\ UNCHANGED <<storeVars, apiVars, ledgerVars, cursor, toBlock, faults>>

(* main(): EventProcessor() *)
RecRestart ==
    /\ recPc = "down"
    /\ cursor' = GetLastProcessedBlock
    /\ recPc' = "poll"
    /\ UNCHANGED <<storeVars, apiVars, ledgerVars, toBlock, batch, sess,
                   pending, faults, hist>>

(* the ledger appends a block *)
Grow ==
    /\ hist.grown < MaxGrow
    /\ height' = height + 1
    /\ hist' = [hist EXCEPT !.grown = @ + 1]
    /\ UNCHANGED <<storeVars, apiVars, web3, txs, logs, now, custody, recVars,
                   faults>>

---------------------------------------------------------------------------
(* The engine: the API workers and the reconciler over one store and one
   ledger.  The contract's escrow is created through the API; the ledger
   holds a funding transaction of the buyer and the logs of one on-chain
   trade whose metadata names escrow 1. *)

(* no settlement transaction was submitted *)
NoSettlement == [trade_id |-> NoInt, recipient_address |-> "None",
                 amount_wei |-> NoInt]

NoHist == [crashFrom |-> 0, crashes |-> 0, grown |-> 0, observe |-> FALSE,
           changes |-> <<>>, staged |-> <<>>, settled |-> NoSettlement]

(* the history of a store that holds one escrow nobody has touched yet *)
OneHist == [NoHist EXCEPT !.changes = <<0>>, !.staged = <<0>>]

GoodTx == [found |-> TRUE, status |-> 1, blockNumber |-> 1, to |-> "0xesc",
           value |-> Amount]

Init ==
    /\ now = 0
    /\ custody = NoCustody
    /\ escrows = <<>>
    /\ events = EmptyBag
    /\ reqs = [s \in Slots |-> Idle]
    /\ calls = 0
    /\ reply = NoReply
    /\ web3 = [contract_address |-> "0xEsc", admin_account |-> TRUE]
    /\ txs = [h \in {"0xfund"} |-> GoodTx]
    /\ logs = {Log("EscrowCreated", 7, 1, Amount, "0xc7", 2, 0),
               Log("Funded", 7, 0, Amount, "0xc7", 2, 1),
               Log("Disputed", 7, 0, Amount, "0xd7", 5, 0)}
    /\ height = 1 + ConfirmationsRequired
    /\ recPc = "poll"
    /\ cursor = Max(0, height - LookBack)
    /\ toBlock = 0
    /\ batch = <<>>
    /\ sess = NoSession
    /\ pending = EmptyBag
    /\ faults = 0
    /\ hist = NoHist

Api ==
    \E s \in Slots :
        \/ \E caller \in {"u_buyer", "u_seller"}, on_chain \in BOOLEAN :
               CreateBegin(s, caller, 1, "u_buyer", "u_seller", Amount, on_chain)
        \/ CreateInsert(s)
        \/ \E success \in BOOLEAN : CreateOnChain(s, success)
        \/ \E caller \in Users, tx_hash \in {"0xfund", "None"} :
               FundBegin(s, caller, 1, tx_hash, FALSE)
        \/ \E caller \in Users : ConfirmBegin(s, caller, 1, FALSE)
        \/ \E caller \in Users : DisputeBegin(s, caller, 1)
        \/ \E caller \in Users :
               ResolveBegin(s, caller, 1, "refund", "omitted", 0, "None")
        \/ ApiCommit(s)
        \/ ApiEvent(s)

Reconciler ==
    \/ RecFetch({}, {})
    \/ RecApply
    \/ RecCommit

Next == Api \/ Reconciler \/ Grow

Spec == Init /\ [][Next]_vars

---------------------------------------------------------------------------
(* The reconciler alone, started on a long ledger: the escrow of the contract
   was created through the API (its row and its created event are stored),
   the ledger stands one block past the look-back, and its calls may fail or
   deliver an entry twice; the process may be killed inside a batch and
   started again.  The loop of process_events runs for ever, which is the
   fairness of the reconciler's own steps. *)

FaultSets == {{}, {"EscrowCreated"}, {EventFilters[i] : i \in 1..Len(EventFilters)}}

DupSets == {{}} \cup {{l} : l \in logs}

RecPoll == \E failed \in FaultSets, dup \in DupSets : RecFetch(failed, dup)

InitRec ==
    /\ now = 0
    /\ custody = NoCustody
    /\ escrows = <<NewEscrow(1, "u_buyer", "u_seller", Amount)>>
    /\ events = SetToBag({EventRow(1, EV_CREATED, "None", NoInt, NoInt)})
    /\ reqs = [s \in Slots |-> Idle]
    /\ calls = 0
    /\ reply = NoReply
    /\ web3 = [contract_address |-> "0xEsc", admin_account |-> TRUE]
    /\ txs = [h \in {"0xfund"} |-> GoodTx]
    /\ logs = {Log("EscrowCreated", 7, 1, Amount, "0xc7", 2, 0),
               Log("Funded", 7, 0, Amount, "0xc7", 2, 1),
               Log("Disputed", 7, 0, Amount, "0xd7", 5, 0)}
    /\ height = LookBack + 1
    /\ recPc = "poll"
    /\ cursor = Max(0, height - LookBack)
    /\ toBlock = 0
    /\ batch = <<>>
    /\ sess = NoSession
    /\ pending = EmptyBag
    /\ faults = MaxFaults
    /\ hist = OneHist

NextRec ==
    \/ RecPoll
    \/ RecPollFault
    \/ RecApply
    \/ RecCommit
    \/ RecCrash
    \/ RecRestart
    \/ Grow

SpecRec ==
    /\ InitRec
    /\ [][NextRec]_vars
    /\ WF_vars(RecPoll)
    /\ WF_vars(RecApply)
    /\ WF_vars(RecCommit)
    /\ WF_vars(RecRestart)

---------------------------------------------------------------------------
(* Funding by a caller-supplied transaction: one worker serves fund_escrow
   requests for the escrow of the contract, created through the API (its row
   and its created event are stored).  The ledger holds any one transaction
   under the hash the callers supply, and the service is configured with or
   without a contract address and an admin account.  Responses are
   observed. *)

NoTx == [found |-> FALSE, status |-> 0, blockNumber |-> 0, to |-> "None", value |-> 0]

TxSpace ==
    {NoTx} \cup
    [found : {TRUE}, status : {0, 1}, blockNumber : 1..(1 + ConfirmationsRequired),
     to : {"None", "0xesc", "0xEsc", "0xoth"},
     value : {Amount - 1, Amount, Amount + 1}]

InitFund ==
    /\ now = 0
    /\ custody = NoCustody
    /\ escrows = <<NewEscrow(1, "u_buyer", "u_seller", Amount)>>
    /\ events = SetToBag({EventRow(1, EV_CREATED, "None", NoInt, NoInt)})
    /\ reqs = [s \in Slots |-> Idle]
    /\ calls = 0
    /\ reply = NoReply
    /\ web3 \in [contract_address : {"None", "0xEsc"}, admin_account : BOOLEAN]
    /\ txs \in [{"0xfund"} -> TxSpace]
    /\ logs = {}
    /\ height = 1 + ConfirmationsRequired
    /\ recPc = "poll"
    /\ cursor = Max(0, height - LookBack)
    /\ toBlock = 0
    /\ batch = <<>>
    /\ sess = NoSession
    /\ pending = EmptyBag
    /\ faults = 0
    /\ hist = [OneHist EXCEPT !.observe = TRUE]

NextFund ==
    \/ \E caller \in Users, tx_hash \in {"0xfund", "None"}, use_custodial \in BOOLEAN :
           FundBegin(1, caller, 1, tx_hash, use_custodial)
    \/ ApiCommit(1)
    \/ ApiEvent(1)
    \/ Grow

SpecFund == InitFund /\ [][NextFund]_vars

---------------------------------------------------------------------------
(* The API served by one worker, one request after the other, on the escrow
   of the contract (created through the API: its row and its created event
   are stored) and on an escrow id that does not exist.  Every user calls
   every action.  Responses are observed. *)

InitApi ==
    /\ now = 0
    /\ custody = NoCustody
    /\ escrows = <<NewEscrow(1, "u_buyer", "u_seller", Amount)>>
    /\ events = SetToBag({EventRow(1, EV_CREATED, "None", NoInt, NoInt)})
    /\ reqs = [s \in Slots |-> Idle]
    /\ calls = 0
    /\ reply = NoReply
    /\ web3 = [contract_address |-> "0xEsc", admin_account |-> TRUE]
    /\ txs = [h \in {"0xfund"} |-> GoodTx]
    /\ logs = {}
    /\ height = 1 + ConfirmationsRequired
    /\ recPc = "poll"
    /\ cursor = Max(0, height - LookBack)
    /\ toBlock = 0
    /\ batch = <<>>
    /\ sess = NoSession
    /\ pending = EmptyBag
    /\ faults = 0
    /\ hist = [OneHist EXCEPT !.observe = TRUE]

NextApi ==
    \/ \E caller \in Users, eid \in {1, 2} : FundBegin(1, caller, eid, "0xfund", FALSE)
    \/ \E caller \in Users, eid \in {1, 2} : ConfirmBegin(1, caller, eid, FALSE)
    \/ \E caller \in Users, eid \in {1, 2} : DisputeBegin(1, caller, eid)
    \/ \E caller \in Users, eid \in {1, 2} :
           ResolveBegin(1, caller, eid, "refund", "omitted", 0, "None")
    \/ ApiCommit(1)
    \/ ApiEvent(1)

SpecApi == InitApi /\ [][NextApi]_vars

(* ------------------------------------------------------------------------ *)
(* The API with a worker process that can die.  A worker killed inside a
   handler answers nothing; what its Session had not committed is lost, what
   it had committed stays. *)

ApiCrash(s) ==
    /\ reqs[s].pc \in {"commit", "event"}
    /\ hist.crashes < MaxCrashes
    /\ reqs' = [reqs EXCEPT ![s] = Idle]
    /\ hist' = [hist EXCEPT !.crashes = @ + 1]
    /\ UNCHANGED <<storeVars, calls, reply, ledgerVars, recVars, faults>>

NextCrash ==
    \/ NextApi
    \/ ApiCrash(1)

SpecCrash == InitApi /\ [][NextCrash]_vars

(* ------------------------------------------------------------------------ *)
(* The life of one escrow through the API alone: an empty store, one worker,
   create_escrow without create_on_chain, fund_escrow with a transaction
   hash, confirm_delivery.  The funding transaction pays the escrow contract
   and has five confirmations; its value is the escrow's amount or one unit
   less.  Responses are observed. *)

FlowHeight == 6   \* ledger height: five confirmations for a block-1 transaction

InitFlow ==
    /\ now = 0
    /\ custody = NoCustody
    /\ escrows = <<>>
    /\ events = EmptyBag
    /\ reqs = [s \in Slots |-> Idle]
    /\ calls = 0
    /\ reply = NoReply
    /\ web3 = [contract_address |-> "0xEsc", admin_account |-> TRUE]
    /\ txs \in [{"0xfund"} -> {GoodTx, [GoodTx EXCEPT !.value = Amount - 1]}]
    /\ logs = {}
    /\ height = FlowHeight
    /\ recPc = "poll"
    /\ cursor = Max(0, height - LookBack)
    /\ toBlock = 0
    /\ batch = <<>>
    /\ sess = NoSession
    /\ pending = EmptyBag
    /\ faults = 0
    /\ hist = [NoHist EXCEPT !.observe = TRUE]

NextFlow ==
    \/ \E caller \in Users :
           CreateBegin(1, caller, 1, "u_buyer", "u_seller", Amount, FALSE)
    \/ CreateInsert(1)
    \/ \E caller \in Users : FundBegin(1, caller, 1, "0xfund", FALSE)
    \/ \E caller \in Users : ConfirmBegin(1, caller, 1, FALSE)
    \/ ApiCommit(1)
    \/ ApiEvent(1)

SpecFlow == InitFlow /\ [][NextFlow]_vars

(* ------------------------------------------------------------------------ *)
(* resolve_dispute on a disputed escrow, served by one worker.  The escrow
   was created, funded and disputed through the API; it is either without an
   on-chain trade or linked to trade 7 by the reconciler, which had applied
   the trade's EscrowCreated event before the escrow was funded.  The request
   carries every outcome, with the payout amount left out, null or given, and
   with or without a payout address.  Responses are observed. *)

TradeId == 7   \* the on-chain trade of the escrow

DisputedRow(trade) ==
    [NewEscrow(1, "u_buyer", "u_seller", Amount) EXCEPT
        !.state = DISPUTED, !.onchain_trade_id = trade,
        !.onchain_tx_hash = "0xfund", !.confirmations = AssumedConfirmations,
        !.is_confirmed = TRUE, !.funded_at = "set", !.disputed_at = "set",
        !.dispute_reason = "reason text"]

DisputedEvents(trade) ==
    SetToBag({EventRow(1, EV_CREATED, "None", NoInt, NoInt),
              EventRow(1, EV_FUNDED, "0xfund", NoInt, NoInt),
              EventRow(1, EV_DISPUTED, "None", NoInt, NoInt)}
             \cup (IF trade = NoInt THEN {}
                   ELSE {EventRow(1, EV_CREATED, "0xc7", 2, 0)}))

(* the requests: a payout amount is carried only when it is given *)
ResolveInputs ==
    {i \in [outcome : {"refund", "payout", "partial", "split"},
            given : {"omitted", "null", "value"},
            payout_amount_wei : {-5, 0, 40, Amount + 1},
            payout_address : {"None", "0xoth"}] :
        i.given # "value" => i.payout_amount_wei = 0}

InitResolve ==
    /\ now = 0
    /\ custody = NoCustody
    /\ \E trade \in {NoInt, TradeId} :
          /\ escrows = <<DisputedRow(trade)>>
          /\ events = DisputedEvents(trade)
          /\ logs = IF trade = NoInt THEN {}
                    ELSE {Log("EscrowCreated", trade, 1, Amount, "0xc7", 2, 0)}
    /\ reqs = [s \in Slots |-> Idle]
    /\ calls = 0
    /\ reply = NoReply
    /\ web3 \in [contract_address : {"0xEsc"}, admin_account : BOOLEAN]
    /\ txs = [h \in {"0xfund"} |-> GoodTx]
    /\ height = 1 + ConfirmationsRequired
    /\ recPc = "poll"
    /\ cursor = height
    /\ toBlock = 0
    /\ batch = <<>>
    /\ sess = NoSession
    /\ pending = EmptyBag
    /\ faults = 0
    /\ hist = [OneHist EXCEPT !.observe = TRUE, !.changes = <<2>>]

NextResolve ==
    \/ \E caller \in Users, i \in ResolveInputs :
           ResolveBegin(1, caller, 1, i.outcome, i.given, i.payout_amount_wei,
                        i.payout_address)
    \/ ApiCommit(1)
    \/ ApiEvent(1)

SpecResolve == InitResolve /\ [][NextResolve]_vars

(* ------------------------------------------------------------------------ *)
(* One window of the reconciler over every set of ledger events.  The escrow
   is linked to trade 7: the trade's EscrowCreated event of block 1 was
   applied by an earlier batch, so the cursor starts at block 1.  The ledger
   holds any of five later events of the trade, of four event types, two of
   them in one block; the node may deliver an entry twice. *)

OrderHeight == 5   \* ledger height: the window is [2, 5]

LogSpace ==
    {Log("Funded", TradeId, 0, Amount, "0xf7", 2, 1),
     Log("DeliveryConfirmed", TradeId, 0, Amount, "0xe7", 2, 0),
     Log("Disputed", TradeId, 0, Amount, "0xd7", 3, 0),
     Log("Resolved", TradeId, 0, Amount, "0xr7", 4, 0),
     Log("DeliveryConfirmed", TradeId, 0, Amount, "0xe8", 5, 0)}

InitOrder ==
    /\ now = 0
    /\ custody = NoCustody
    /\ escrows = <<[NewEscrow(1, "u_buyer", "u_seller", Amount) EXCEPT
                       !.onchain_trade_id = TradeId, !.onchain_tx_hash = "0xc7"]>>
    /\ events = SetToBag({EventRow(1, EV_CREATED, "None", NoInt, NoInt),
                          EventRow(1, EV_CREATED, "0xc7", 1, 0)})
    /\ reqs = [s \in Slots |-> Idle]
    /\ calls = 0
    /\ reply = NoReply
    /\ web3 = [contract_address |-> "0xEsc", admin_account |-> TRUE]
    /\ txs = [h \in {"0xfund"} |-> GoodTx]
    /\ \E later \in SUBSET LogSpace :
          logs = {Log("EscrowCreated", TradeId, 1, Amount, "0xc7", 1, 0)} \cup later
    /\ height = OrderHeight
    /\ recPc = "poll"
    /\ cursor = GetLastProcessedBlock
    /\ toBlock = 0
    /\ batch = <<>>
    /\ sess = NoSession
    /\ pending = EmptyBag
    /\ faults = 0
    /\ hist = OneHist

NextOrder ==
    \/ RecPoll
    \/ RecApply
    \/ RecCommit

SpecOrder == InitOrder /\ [][NextOrder]_vars

(* One window of the reconciler over events it has to skip.  The escrow is
   linked to trade 7 as above.  The ledger holds any of: an EscrowCreated
   event of trade 9 whose metadata names the escrow "abc", a Funded event of
   trade 8 that no escrow is linked to, and Funded and Disputed of trade 7. *)

SkipSpace ==
    {Log("Funded", TradeId, 0, Amount, "0xf7", 2, 0),
     Log("EscrowCreated", 9, NoInt, Amount, "0xc9", 3, 0),
     Log("Funded", 8, 0, Amount, "0xf8", 3, 1),
     Log("Disputed", TradeId, 0, Amount, "0xd7", 4, 0),
     Log("DeliveryConfirmed", TradeId, 0, Amount, "0xe7", 2, 1)}

InitSkip ==
    /\ now = 0
    /\ custody = NoCustody
    /\ escrows = <<[NewEscrow(1, "u_buyer", "u_seller", Amount) EXCEPT
                       !.onchain_trade_id = TradeId, !.onchain_tx_hash = "0xc7"]>>
    /\ events = SetToBag({EventRow(1, EV_CREATED, "None", NoInt, NoInt),
                          EventRow(1, EV_CREATED, "0xc7", 1, 0)})
    /\ reqs = [s \in Slots |-> Idle]
    /\ calls = 0
    /\ reply = NoReply
    /\ web3 = [contract_address |-> "0xEsc", admin_account |-> TRUE]
    /\ txs = [h \in {"0xfund"} |-> GoodTx]
    /\ \E later \in SUBSET SkipSpace :
          logs = {Log("EscrowCreated", TradeId, 1, Amount, "0xc7", 1, 0)} \cup later
    /\ height = OrderHeight
    /\ recPc = "poll"
    /\ cursor = GetLastProcessedBlock
    /\ toBlock = 0
    /\ batch = <<>>
    /\ sess = NoSession
    /\ pending = EmptyBag
    /\ faults = 0
    /\ hist = OneHist

NextSkip ==
    \/ RecPoll
    \/ RecApply
    \/ RecAbort
    \/ RecApplyAborted
    \/ RecCommit
    \/ RecCommitAborted

SpecSkip == InitSkip /\ [][NextSkip]_vars

(* One window of the reconciler while the clock runs.  Escrow 1 was created
   on day 0, its timeout_at is day 30; it is linked to trade 7 and FUNDED by
   the ledger events of blocks 1 and 2, which earlier batches applied.  The
   ledger holds any of a TimeoutRefund and a Disputed event of the trade. *)

MaxNow == 45     \* the clock stops here
TickDays == 15   \* one step of the clock

CreatedLog == Log("EscrowCreated", TradeId, 1, Amount, "0xc7", 1, 0)
FundedLog == Log("Funded", TradeId, 0, Amount, "0xf7", 2, 0)

TimeoutSpace ==
    {Log("TimeoutRefund", TradeId, 0, Amount, "0xt7", 3, 0),
     Log("Disputed", TradeId, 0, Amount, "0xd7", 4, 0),
     Log("TimeoutRefund", TradeId, 0, Amount, "0xt8", 5, 0)}

(* time passes *)
Tick ==
    /\ now < MaxNow
    /\ now' = now + TickDays
    /\ UNCHANGED <<storeVars, apiVars, web3, txs, logs, height, custody,
                   recVars, faults, hist>>

InitTimeout ==
    /\ now = 0
    /\ custody = NoCustody
    /\ escrows = <<HandleFunded(
                      HandleEscrowCreated(
                          NewEscrow(1, "u_buyer", "u_seller", Amount),
                          CreatedLog),
                      FundedLog)>>
    /\ events = SetToBag({EventRow(1, EV_CREATED, "None", NoInt, NoInt),
                          CreateEventRecord(1, CreatedLog),
                          CreateEventRecord(1, FundedLog)})
    /\ reqs = [s \in Slots |-> Idle]
    /\ calls = 0
    /\ reply = NoReply
    /\ web3 = [contract_address |-> "0xEsc", admin_account |-> TRUE]
    /\ txs = [h \in {"0xfund"} |-> GoodTx]
    /\ \E later \in SUBSET TimeoutSpace :
          logs = {CreatedLog, FundedLog} \cup later
    /\ height = OrderHeight
    /\ recPc = "poll"
    /\ cursor = GetLastProcessedBlock
    /\ toBlock = 0
    /\ batch = <<>>
    /\ sess = NoSession
    /\ pending = EmptyBag
    /\ faults = 0
    /\ hist = OneHist

NextTimeout ==
    \/ Tick
    \/ RecPoll
    \/ RecApply
    \/ RecCommit

SpecTimeout == InitTimeout /\ [][NextTimeout]_vars

(* Web3Service's custodial methods, step by step.  The handlers are plain
   functions, which the framework runs on a pool of threads: the calls of
   two requests interleave, and no lock is taken. *)

MaxSends == 3   \* submissions started in one behaviour

CustodialMethods == {"createAndFundTrade", "confirmDelivery", "resolveDispute"}

Started ==
    Len(custody.sent) +
        Cardinality({s \in Slots : custody.subs[s].pc # "idle"})

(* estimate_gas, gas_price, build_transaction with
   nonce = get_transaction_count(admin address), which counts the mined
   transactions of the account; sign_transaction *)
SubmitBuild(s, method) ==
    /\ CustodialConfigured
    /\ custody.subs[s].pc = "idle"
    /\ Started < MaxSends
    /\ custody' = [custody EXCEPT
                     !.subs[s] = [pc |-> "built", method |-> method,
                                  nonce |-> custody.mined]]
    /\ UNCHANGED <<storeVars, apiVars, web3, txs, logs, height, now, recVars,
                   faults, hist>>

(* send_raw_transaction: the node refuses a nonce below the account's, and
   a nonce that a transaction of its pool holds is refused or, with a
   higher gas price, takes that transaction's place; the method returns
   (True, hash) or, from its except, (False, error) *)
SubmitSend(s, replaces) ==
    /\ custody.subs[s].pc = "built"
    /\ LET sub == custody.subs[s]
           same == {t \in custody.pool : t.nonce = sub.nonce}
           tx == [by |-> s, method |-> sub.method, nonce |-> sub.nonce]
           accepted == sub.nonce >= custody.mined /\ (same = {} \/ replaces)
       IN custody' = [custody EXCEPT
                        !.subs[s] = NoSubmission,
                        !.pool = IF accepted THEN (@ \ same) \cup {tx} ELSE @,
                        !.sent = Append(@, [by |-> s, method |-> sub.method,
                                            nonce |-> sub.nonce,
                                            success |-> accepted])]
    /\ UNCHANGED <<storeVars, apiVars, web3, txs, logs, height, now, recVars,
                   faults, hist>>

(* the ledger includes the pool's transaction of the account's next nonce *)
Mine ==
    /\ \E t \in custody.pool :
          /\ t.nonce = custody.mined
          /\ custody' = [custody EXCEPT !.mined = @ + 1, !.pool = @ \ {t}]
    /\ UNCHANGED <<storeVars, apiVars, web3, txs, logs, height, now, recVars,
                   faults, hist>>

InitNonce ==
    /\ now = 0
    /\ custody = NoCustody
    /\ escrows = <<>>
    /\ events = EmptyBag
    /\ reqs = [s \in Slots |-> Idle]
    /\ calls = 0
    /\ reply = NoReply
    /\ web3 = [contract_address |-> "0xEsc", admin_account |-> TRUE]
    /\ txs = [h \in {"0xfund"} |-> GoodTx]
    /\ logs = {}
    /\ height = 1
    /\ recPc = "poll"
    /\ cursor = 1
    /\ toBlock = 0
    /\ batch = <<>>
    /\ sess = NoSession
    /\ pending = EmptyBag
    /\ faults = 0
    /\ hist = NoHist

NextNonce ==
    \/ \E s \in Slots, method \in CustodialMethods : SubmitBuild(s, method)
    \/ \E s \in Slots, replaces \in BOOLEAN : SubmitSend(s, replaces)
    \/ Mine

SpecNonce == InitNonce /\ [][NextNonce]_vars

(* fund_escrow on two escrows of one buyer.  Escrow 1 is for Amount, escrow 2
   for Amount or one unit more; the ledger holds two confirmed payments to
   the escrow contract, 0xfund of Amount and 0xfun2 of Amount + 1.  Two
   requests are served at a time. *)

ProofTxs == {"0xfund", "0xfun2"}

InitProof ==
    /\ now = 0
    /\ custody = NoCustody
    /\ \E amount2 \in {Amount, Amount + 1} :
          escrows = <<NewEscrow(1, "u_buyer", "u_seller", Amount),
                      NewEscrow(2, "u_buyer", "u_seller", amount2)>>
    /\ events = SetToBag({EventRow(1, EV_CREATED, "None", NoInt, NoInt),
                          EventRow(2, EV_CREATED, "None", NoInt, NoInt)})
    /\ reqs = [s \in Slots |-> Idle]
    /\ calls = 0
    /\ reply = NoReply
    /\ web3 = [contract_address |-> "0xEsc", admin_account |-> FALSE]
    /\ txs = [h \in ProofTxs |->
                 IF h = "0xfund" THEN GoodTx
                 ELSE [GoodTx EXCEPT !.value = Amount + 1]]
    /\ logs = {}
    /\ height = 1 + ConfirmationsRequired
    /\ recPc = "poll"
    /\ cursor = Max(0, height - LookBack)
    /\ toBlock = 0
    /\ batch = <<>>
    /\ sess = NoSession
    /\ pending = EmptyBag
    /\ faults = 0
    /\ hist = [NoHist EXCEPT !.changes = <<0, 0>>, !.staged = <<0, 0>>]

NextProof ==
    \/ \E s \in Slots, eid \in 1..2, tx_hash \in ProofTxs :
           FundBegin(s, "u_buyer", eid, tx_hash, FALSE)
    \/ \E s \in Slots : ApiCommit(s)
    \/ \E s \in Slots : ApiEvent(s)

SpecProof == InitProof /\ [][NextProof]_vars

(* One window of the reconciler over Funded events of any amount.  Escrow 1,
   for Amount, is linked to trade 7 by the EscrowCreated event of block 1
   and AWAITING_FUND.  The ledger holds any of three Funded events of the
   trade: of one unit less, of the amount, of one unit more, and a Disputed
   event after them. *)

AmountSpace ==
    {Log("Funded", TradeId, 0, Amount - 1, "0xf6", 2, 0),
     Log("Funded", TradeId, 0, Amount, "0xf7", 3, 0),
     Log("Funded", TradeId, 0, Amount + 1, "0xf8", 4, 0),
     Log("Disputed", TradeId, 0, Amount, "0xd7", 5, 0)}

InitAmount ==
    /\ now = 0
    /\ custody = NoCustody
    /\ escrows = <<HandleEscrowCreated(
                      NewEscrow(1, "u_buyer", "u_seller", Amount), CreatedLog)>>
    /\ events = SetToBag({EventRow(1, EV_CREATED, "None", NoInt, NoInt),
                          CreateEventRecord(1, CreatedLog)})
    /\ reqs = [s \in Slots |-> Idle]
    /\ calls = 0
    /\ reply = NoReply
    /\ web3 = [contract_address |-> "0xEsc", admin_account |-> TRUE]
    /\ txs = [h \in {"0xfund"} |-> GoodTx]
    /\ \E later \in SUBSET AmountSpace : logs = {CreatedLog} \cup later
    /\ height = OrderHeight
    /\ recPc = "poll"
    /\ cursor = GetLastProcessedBlock
    /\ toBlock = 0
    /\ batch = <<>>
    /\ sess = NoSession
    /\ pending = EmptyBag
    /\ faults = 0
    /\ hist = OneHist

NextAmount ==
    \/ RecPoll
    \/ RecApply
    \/ RecCommit

SpecAmount == InitAmount /\ [][NextAmount]_vars

(* One window of the reconciler over EscrowCreated events.  Escrow 1 is
   linked to trade 7 and FUNDED by the ledger events of blocks 1 and 2;
   escrow 2 has no trade yet.  The ledger holds any of: EscrowCreated of
   trade 8 naming escrow 2, EscrowCreated of trade 9 naming escrow 1, and
   the Funded events of the two trades. *)

LinkSpace ==
    {Log("EscrowCreated", 8, 2, Amount, "0xc8", 3, 0),
     Log("EscrowCreated", 9, 1, Amount, "0xc9", 3, 1),
     Log("Funded", 8, 0, Amount, "0xf8", 4, 0),
     Log("Funded", 9, 0, Amount, "0xf9", 5, 0)}

InitLink ==
    /\ now = 0
    /\ custody = NoCustody
    /\ escrows = <<HandleFunded(
                      HandleEscrowCreated(
                          NewEscrow(1, "u_buyer", "u_seller", Amount),
                          CreatedLog),
                      FundedLog),
                   NewEscrow(2, "u_buyer", "u_seller", Amount)>>
    /\ events = SetToBag({EventRow(1, EV_CREATED, "None", NoInt, NoInt),
                          EventRow(2, EV_CREATED, "None", NoInt, NoInt),
                          CreateEventRecord(1, CreatedLog),
                          CreateEventRecord(1, FundedLog)})
    /\ reqs = [s \in Slots |-> Idle]
    /\ calls = 0
    /\ reply = NoReply
    /\ web3 = [contract_address |-> "0xEsc", admin_account |-> TRUE]
    /\ txs = [h \in {"0xfund"} |-> GoodTx]
    /\ \E later \in SUBSET LinkSpace :
          logs = {CreatedLog, FundedLog} \cup later
    /\ height = OrderHeight
    /\ recPc = "poll"
    /\ cursor = GetLastProcessedBlock
    /\ toBlock = 0
    /\ batch = <<>>
    /\ sess = NoSession
    /\ pending = EmptyBag
    /\ faults = 0
    /\ hist = [NoHist EXCEPT !.changes = <<0, 0>>, !.staged = <<0, 0>>]

NextLink ==
    \/ RecPoll
    \/ RecApply
    \/ RecCommit

SpecLink == InitLink /\ [][NextLink]_vars

(* create_escrow on an empty store, served by one worker: every user calls
   it for the contract or for a contract that does not exist, naming any
   users, or a user that does not exist, as buyer and seller.  Responses
   are observed. *)

PartySpace == Users \cup {"u_ghost"}

InitCreate ==
    /\ now = 0
    /\ custody = NoCustody
    /\ escrows = <<>>
    /\ events = EmptyBag
    /\ reqs = [s \in Slots |-> Idle]
    /\ calls = 0
    /\ reply = NoReply
    /\ web3 = [contract_address |-> "0xEsc", admin_account |-> TRUE]
    /\ txs = [h \in {"0xfund"} |-> GoodTx]
    /\ logs = {}
    /\ height = 1
    /\ recPc = "poll"
    /\ cursor = Max(0, height - LookBack)
    /\ toBlock = 0
    /\ batch = <<>>
    /\ sess = NoSession
    /\ pending = EmptyBag
    /\ faults = 0
    /\ hist = [NoHist EXCEPT !.observe = TRUE]

NextCreate ==
    \/ \E caller \in Users, contract_id \in 1..2,
          buyer_id \in PartySpace, seller_id \in PartySpace,
          amount_wei \in {0, Amount} :
           CreateBegin(1, caller, contract_id, buyer_id, seller_id, amount_wei,
                       FALSE)
    \/ CreateInsert(1)
    \/ ApiEvent(1)

SpecCreate == InitCreate /\ [][NextCreate]_vars

---------------------------------------------------------------------------
(* Properties of the engine *)

(* the edges of the escrow state machine *)
Edges == {<<AWAITING_FUND, FUNDED>>, <<FUNDED, COMPLETE>>,
          <<FUNDED, DISPUTED>>, <<DISPUTED, COMPLETE>>}

(* rows of the events table of one type for one escrow *)
RowsOf(e, event_type) ==
    {r \in BagToSet(events) : r.escrow_id = e /\ r.event_type = event_type}

RECURSIVE Copies(_)
Copies(S) ==
    IF S = {} THEN 0
    ELSE LET r == CHOOSE x \in S : TRUE
         IN CopiesIn(r, events) + Copies(S \ {r})

(* C1: the stored state of every escrow is one of awaiting_fund, funded,
   disputed, complete, a new row starts in awaiting_fund, and every change
   of a stored state follows one of the four edges of the state machine. *)
C1_OnlyLegalEdges ==
    [][\A e \in DOMAIN escrows' :
          /\ escrows'[e].state \in {AWAITING_FUND, FUNDED, DISPUTED, COMPLETE}
          /\ IF e \in DOMAIN escrows
             THEN \/ escrows'[e].state = escrows[e].state
                  \/ <<escrows[e].state, escrows'[e].state>> \in Edges
             ELSE escrows'[e].state = AWAITING_FUND]_vars

(* C2: complete is terminal: once the stored state of an escrow is complete,
   no step of any request or of the reconciler changes it. *)
C2_CompleteIsTerminal ==
    [][\A e \in DOMAIN escrows :
          escrows[e].state = COMPLETE => escrows'[e].state = COMPLETE]_vars

(* C3: confirm_delivery applies once: however two confirmation requests for
   a funded escrow interleave, only the first of them writes, so the events
   table never holds more than one delivery_confirmed row for the escrow. *)
C3_ConfirmOnce ==
    \A e \in DOMAIN escrows : Copies(RowsOf(e, EV_DELIVERY_CONFIRMED)) <= 1

(* the idempotency key of a ledger event is on a row, stored or pending *)
Recorded(log, rows) ==
    \E r \in BagToSet(rows) :
        r.tx_hash = log.transactionHash /\ r.log_index = log.logIndex

(* C4: a ledger event delivered to the reconciler again, in a later batch or
   inside the same batch, is applied once: processing an event whose
   (transaction hash, log position) is already on a row changes no escrow
   field and adds no row. *)
C4_AppliedOnce ==
    [][(/\ recPc = "batch"
        /\ batch # <<>>
        /\ batch' = Tail(batch)
        /\ Recorded(Head(batch), events (+) pending))
       => UNCHANGED <<sess, pending>>]_vars

(* C5: no two rows of the events table carry the same (tx_hash, log_index)
   pair with both fields present. *)
C5_UniqueKey ==
    \A r \in BagToSet(events) :
        (r.tx_hash # "None" /\ r.log_index # NoInt) =>
            /\ CopiesIn(r, events) = 1
            /\ \A q \in BagToSet(events) :
                   (q.tx_hash = r.tx_hash /\ q.log_index = r.log_index) => q = r

(* C6: a reconciler killed inside a batch starts again with its cursor
   below the window it was killed in, so that the window is processed
   again. *)
C6_RestartBelowWindow ==
    (recPc = "poll" /\ hist.crashFrom # 0) => cursor < hist.crashFrom

(* the escrow of a ledger event can be resolved from the store *)
Resolvable(log) ==
    IF log.event = "EscrowCreated" THEN log.escrow_id \in DOMAIN escrows
    ELSE \E e \in DOMAIN escrows : escrows[e].onchain_trade_id = log.tradeId

Reconciled ==
    /\ cursor = height
    /\ \A l \in logs :
          (l.blockNumber <= cursor /\ Resolvable(l)) => Recorded(l, events)

(* C7: a reconciler that keeps running, on a ledger that stops growing and
   whose calls fail only transiently, eventually has its cursor at the
   ledger height with a row for every ledger event at or below the cursor
   whose escrow can be resolved. *)
C7_EventuallyReconciled ==
    <>[](hist.crashes = 0 => Reconciled)

(* C8: fund_escrow with a transaction hash is rejected, and the escrow stays
   awaiting_fund, whenever the value of the transaction differs from the
   amount_wei of the escrow, be it by one unit: whoever calls, no such
   request goes on to write, none is answered 200, and the stored state
   stays awaiting_fund. *)
C8_ExactAmount ==
    \A e \in DOMAIN escrows, h \in DOMAIN txs :
        (txs[h].found /\ txs[h].value # escrows[e].amount_wei) =>
            /\ escrows[e].state = AWAITING_FUND
            /\ escrows[e].onchain_tx_hash = "None"
            /\ \A caller \in Users, use_custodial \in BOOLEAN :
                   /\ FundRequest(caller, e, h, use_custodial).pc = "done"
                   /\ FundRequest(caller, e, h, use_custodial).res \in {400, 403, 500}
            /\ (reply.op = "fund" /\ reply.input.tx_hash = h) => reply.res # 200

(* the buyer's request was answered 400 for a transaction that is confirmed,
   successful and sent to the contract, its value one unit above the amount *)
C8_Witness ==
    /\ reply.op = "fund" /\ reply.caller = "u_buyer" /\ reply.res = 400
    /\ reply.input.tx_hash = "0xfund"
    /\ txs["0xfund"].found /\ txs["0xfund"].status = 1
    /\ txs["0xfund"].to = "0xesc" /\ web3.contract_address = "0xEsc"
    /\ height - txs["0xfund"].blockNumber >= ConfirmationsRequired
    /\ txs["0xfund"].value = escrows[1].amount_wei + 1
    /\ escrows[1].state = AWAITING_FUND

(* a transaction that passes every check of the verifier but the
   confirmations one *)
OtherwiseValid(tx, row) ==
    /\ tx.found /\ tx.status = 1
    /\ tx.value = row.amount_wei
    /\ tx.to # "None" /\ web3.contract_address # "None"
    /\ ToChecksum(tx.to) = ToChecksum(web3.contract_address)

(* C9: for a funding transaction that is otherwise valid, the buyer's
   request is rejected while the ledger height less the block of the
   receipt is below the confirmation threshold, and goes through as soon as
   the difference is equal to or above it. *)
C9_ConfirmationThreshold ==
    \A e \in DOMAIN escrows, h \in DOMAIN txs :
        (escrows[e].state = AWAITING_FUND /\ OtherwiseValid(txs[h], escrows[e])) =>
            LET r == FundRequest(escrows[e].buyer_id, e, h, FALSE)
                v == VerifyFundingTx(txs[h], escrows[e].amount_wei,
                                     web3.contract_address, height)
            IN IF height - txs[h].blockNumber < ConfirmationsRequired
               THEN ~v.ok /\ r.pc = "done" /\ r.res = 400
               ELSE v.ok /\ r.pc = "commit"

(* the ledger grew, the transaction sent to the contract now has exactly
   the threshold of confirmations, and the buyer's request was answered 200 *)
C9_Witness ==
    /\ reply.op = "fund" /\ reply.res = 200 /\ reply.input.tx_hash = "0xfund"
    /\ txs["0xfund"].to = "0xesc" /\ web3.contract_address = "0xEsc"
    /\ hist.grown > 0
    /\ height - txs["0xfund"].blockNumber = ConfirmationsRequired
    /\ escrows[1].state = FUNDED

(* C10: a transaction is accepted as funding proof only if its recipient
   equals the expected address after checksum normalisation: an escrow is
   funded by a transaction hash only with an expected address configured
   and a transaction sent to it. *)
C10_RecipientChecked ==
    \A e \in DOMAIN escrows :
        escrows[e].onchain_tx_hash \in DOMAIN txs =>
            LET tx == txs[escrows[e].onchain_tx_hash]
            IN /\ web3.contract_address # "None"
               /\ tx.to # "None"
               /\ ToChecksum(tx.to) = ToChecksum(web3.contract_address)

(* C11: fund_escrow goes through only with exactly one of tx_hash and
   use_custodial supplied: no request carrying both, or neither, goes on to
   write or is answered 200. *)
C11_ExactlyOneProof ==
    /\ \A s \in Slots :
          (reqs[s].op = "fund" /\ reqs[s].pc \in {"commit", "event"}) =>
              ((reqs[s].input.tx_hash # "None") # reqs[s].input.use_custodial)
    /\ (reply.op = "fund" /\ reply.res = 200) =>
          ((reply.input.tx_hash # "None") # reply.input.use_custodial)

(* C12: a fund_escrow call that fails leaves the stored escrow and its
   events exactly as they were: the step that answers a fund request with
   an error changes neither table and leaves no request behind. *)
C12_FailureChangesNothing ==
    [][(reply' # reply /\ reply'.op = "fund" /\ reply'.res # 200)
       => UNCHANGED <<escrows, events, reqs>>]_vars

(* the buyer's request with the hash of a failed transaction was answered
   400, and the store holds the escrow as created and its created event *)
C12_Witness ==
    /\ reply.op = "fund" /\ reply.caller = "u_buyer" /\ reply.res = 400
    /\ reply.input.tx_hash = "0xfund"
    /\ txs["0xfund"].found /\ txs["0xfund"].status = 0
    /\ escrows = <<NewEscrow(1, "u_buyer", "u_seller", Amount)>>
    /\ events = SetToBag({EventRow(1, EV_CREATED, "None", NoInt, NoInt)})

(* C13: the buyer's fund_escrow with use_custodial on an awaiting_fund
   escrow, with a custodial account and a contract configured, funds the
   escrow: such a request is never answered with the custodial failure. *)
C13_CustodialFunds ==
    (/\ reply.op = "fund" /\ reply.caller = "u_buyer"
     /\ reply.input.use_custodial /\ reply.input.tx_hash = "None"
     /\ CustodialConfigured)
    => reply.res # 500

(* C14: confirm_delivery completes an escrow only for its seller or an
   admin: no confirmation is answered 200 to any other caller. *)
C14_SellerOrAdminConfirms ==
    (reply.op = "confirm" /\ reply.res = 200) =>
        reply.caller \in {escrows[reply.eid].seller_id, "u_admin"}

(* C15: raise_dispute disputes an escrow only for its buyer or its seller:
   no dispute is answered 200 to an admin who is neither, or to anyone
   else. *)
C15_PartyDisputes ==
    (reply.op = "dispute" /\ reply.res = 200) =>
        reply.caller \in {escrows[reply.eid].buyer_id, escrows[reply.eid].seller_id}

(* C16: resolve_dispute completes an escrow only for a caller with the admin
   role: the request that commits a resolution is an admin's, and the
   request of anyone else is answered 403 by a step that changes neither the
   escrow (its state and resolution_notes) nor the events. *)
C16_OnlyAdminResolves ==
    [][/\ \A s \in Slots :
            (reqs[s].op = "resolve" /\ reqs[s].pc = "commit" /\ escrows' # escrows)
                => reqs[s].caller = "u_admin"
       /\ (reply' # reply /\ reply'.op = "resolve" /\ reply'.caller # "u_admin")
            => (reply'.res = 403 /\ UNCHANGED <<escrows, events, reqs>>)]_vars

(* the seller's resolve request for the disputed escrow was answered 403 and
   the escrow stands disputed without resolution notes *)
C16_Witness ==
    /\ reply.op = "resolve" /\ reply.caller = "u_seller" /\ reply.res = 403
    /\ reply.eid = 1
    /\ escrows[1].state = DISPUTED
    /\ escrows[1].resolution_notes = "None"

(* the states in which an action is neither at its from-state nor at its
   target state *)
Illegal(op, state) ==
    CASE op = "fund" -> state \in {DISPUTED, COMPLETE}
      [] op = "confirm" -> state \in {AWAITING_FUND, DISPUTED}
      [] op = "dispute" -> state \in {AWAITING_FUND, COMPLETE}
      [] op = "resolve" -> state \in {AWAITING_FUND, FUNDED}
      [] OTHER -> FALSE

(* the party an action belongs to *)
Actor(op, row) ==
    CASE op = "fund" -> row.buyer_id
      [] op = "confirm" -> row.seller_id
      [] op = "dispute" -> row.buyer_id
      [] OTHER -> "u_admin"

(* what the handler of an action decides on a request in this state *)
Decide(op, caller, e) ==
    CASE op = "fund" -> FundRequest(caller, e, "0xfund", FALSE)
      [] op = "confirm" -> ConfirmRequest(caller, e, FALSE, "None")
      [] op = "dispute" -> DisputeRequest(caller, e, "reason text")
      [] OTHER -> ResolveRequest(caller, e, "refund", "omitted", 0, "None", "None")

(* C17: a fund, confirm_delivery, raise_dispute or resolve_dispute call made
   while the escrow is neither in the action's from-state nor in its target
   state is rejected, with 400 when the caller is the party the action
   belongs to, and the step that answers it changes neither the escrow nor
   the events. *)
C17_IllegalTransitionRejected ==
    [][/\ \A e \in DOMAIN escrows, caller \in Users,
             op \in {"fund", "confirm", "dispute", "resolve"} :
            Illegal(op, escrows[e].state) =>
                /\ Decide(op, caller, e).pc = "done"
                /\ Decide(op, caller, e).res \in {400, 403}
                /\ caller = Actor(op, escrows[e]) => Decide(op, caller, e).res = 400
       /\ (/\ reply' # reply
           /\ reply'.eid \in DOMAIN escrows
           /\ Illegal(reply'.op, escrows[reply'.eid].state))
            => (reply'.res \in {400, 403} /\ UNCHANGED <<escrows, events, reqs>>)]_vars

(* the seller's confirm_delivery for the disputed escrow was answered 400;
   the escrow stands disputed and has no delivery_confirmed event *)
C17_Witness ==
    /\ reply.op = "confirm" /\ reply.caller = "u_seller" /\ reply.res = 400
    /\ reply.eid = 1
    /\ escrows[1].state = DISPUTED
    /\ escrows[1].completed_at = "None"
    /\ RowsOf(1, EV_DELIVERY_CONFIRMED) = {}

(* C18: a confirm_delivery request of the seller that arrives while no other
   request is in progress and the escrow is already complete is answered as
   a success, the step leaving the escrow and the events as they were. *)
C18_TargetStateIsNoOp ==
    [][(/\ \A s \in Slots : reqs[s].pc = "idle"
        /\ reply' # reply
        /\ reply'.op = "confirm"
        /\ reply'.eid \in DOMAIN escrows
        /\ reply'.caller = escrows[reply'.eid].seller_id
        /\ escrows[reply'.eid].state = COMPLETE)
         => (reply'.res = 200 /\ UNCHANGED <<escrows, events>>)]_vars

(* no request is between its steps and the reconciler is not inside a batch *)
Quiescent ==
    /\ \A s \in Slots : reqs[s].pc = "idle"
    /\ recPc = "poll"

(* the EscrowEvents of one escrow that tell of a transition *)
TransitionRows(e) ==
    RowsOf(e, EV_FUNDED) \cup RowsOf(e, EV_DELIVERY_CONFIRMED)
        \cup RowsOf(e, EV_DISPUTED) \cup RowsOf(e, EV_RESOLVED)
        \cup RowsOf(e, EV_TIMEOUT_REFUND)

(* C19: in every quiescent state each escrow has as many funded,
   delivery_confirmed, disputed, resolved and timeout_refund events as the
   operations have made state changes on it. *)
C19_EventPerStateChange ==
    Quiescent =>
        \A e \in DOMAIN escrows : Copies(TransitionRows(e)) = hist.changes[e]

(* the EscrowEvents that tell of an escrow's entry into complete *)
ClosingRows(e) ==
    RowsOf(e, EV_DELIVERY_CONFIRMED) \cup RowsOf(e, EV_RESOLVED)
        \cup RowsOf(e, EV_TIMEOUT_REFUND)

(* C20: a state change and its EscrowEvent are durable together, a worker
   dying inside an operation included: when no request is in progress, an
   escrow that stands funded, disputed or complete has the event of its entry
   into that state, and an escrow that has a funded, disputed or closing
   event has made that state change. *)
C20_DurableTogether ==
    (\A s \in Slots : reqs[s].pc = "idle") =>
        \A e \in DOMAIN escrows :
            /\ escrows[e].state = FUNDED => RowsOf(e, EV_FUNDED) # {}
            /\ escrows[e].state = DISPUTED => RowsOf(e, EV_DISPUTED) # {}
            /\ escrows[e].state = COMPLETE => ClosingRows(e) # {}
            /\ RowsOf(e, EV_FUNDED) # {} => escrows[e].state # AWAITING_FUND
            /\ RowsOf(e, EV_DISPUTED) # {} => escrows[e].disputed_at = "set"
            /\ ClosingRows(e) # {} => escrows[e].state = COMPLETE

(* the seller's confirm_delivery for escrow 1 has just been answered 200 *)
SellerConfirmed ==
    /\ reply.op = "confirm" /\ reply.res = 200
    /\ reply.eid = 1 /\ reply.caller = "u_seller"

(* C21: after create_escrow, fund_escrow with a verified transaction and the
   seller's confirm_delivery, the escrow is complete and its events are
   exactly three: the created event of create_escrow, one funded event and
   one delivery_confirmed event. *)
C21_CreateFundConfirm ==
    SellerConfirmed =>
        /\ escrows[1].state = COMPLETE
        /\ Copies(RowsOf(1, EV_CREATED)) = 1
        /\ Copies(RowsOf(1, EV_FUNDED)) = 1
        /\ Copies(RowsOf(1, EV_DELIVERY_CONFIRMED)) = 1
        /\ BagCardinality(events) = 3

C21_Witness ==
    /\ SellerConfirmed
    /\ escrows[1].state = COMPLETE
    /\ escrows[1].onchain_tx_hash = "0xfund"
    /\ BagCardinality(events) = 3

(* C21 as the specification words it: the events of the escrow are exactly
   two, funded and delivery_confirmed *)
C21_ExactlyTwoEvents ==
    SellerConfirmed =>
        /\ escrows[1].state = COMPLETE
        /\ Copies(RowsOf(1, EV_FUNDED)) = 1
        /\ Copies(RowsOf(1, EV_DELIVERY_CONFIRMED)) = 1
        /\ BagCardinality(events) = 2

(* the admin's resolve request that has just been answered *)
Resolving(outcome, given) ==
    /\ reply.op = "resolve" /\ reply.caller = "u_admin" /\ reply.eid = 1
    /\ reply.input.outcome = outcome /\ reply.input.given = given

(* C22: resolve_dispute with outcome partial and no payout amount, left out
   or null, is answered with a validation error, and a request in progress
   that would complete the escrow is never such a request. *)
C22_PartialNeedsAmount ==
    /\ (\/ Resolving("partial", "omitted")
        \/ Resolving("partial", "null")) => reply.res = 422
    /\ \A s \in Slots :
          (reqs[s].op = "resolve" /\ reqs[s].input.outcome = "partial")
              => reqs[s].input.given = "value"

(* the party an outcome settles with *)
PartyOf(row, outcome) == IF outcome = "refund" THEN row.buyer_id ELSE row.seller_id

(* C23: a resolve_dispute request with outcome refund or payout that passed
   its checks records the buyer, respectively the seller, and the escrow's
   full amount in its resolved event, and the settlement transaction it
   submitted pays that full amount to that party's address, whatever payout
   address and payout amount the request carries. *)
C23_FullAmountToParty ==
    \A s \in Slots :
        (/\ reqs[s].op = "resolve"
         /\ reqs[s].pc \in {"commit", "event"}
         /\ reqs[s].input.outcome \in {"refund", "payout"}) =>
            LET row == reqs[s].loaded
                party == PartyOf(row, reqs[s].input.outcome)
            IN /\ reqs[s].ev.payload.recipient_id = party
               /\ reqs[s].ev.payload.amount_wei = row.amount_wei
               /\ reqs[s].input.tx_hash # "None" =>
                     hist.settled = [trade_id |-> row.onchain_trade_id,
                                     recipient_address |-> WalletOf(party),
                                     amount_wei |-> row.amount_wei]

(* the admin's resolve request for the escrow with an on-chain trade was
   answered 200 without a transaction hash: the settlement was not submitted *)
SettlementFailed ==
    /\ reply.op = "resolve" /\ reply.res = 200 /\ reply.eid = 1
    /\ reply.input.tx_hash = "None"
    /\ escrows[1].onchain_trade_id # NoInt

(* C24: when the on-chain settlement of resolve_dispute fails, the escrow is
   complete all the same with its resolution notes stored, it has exactly
   one resolved event, and that event carries no transaction hash, as the
   response does. *)
C24_FailedSettlementStillResolves ==
    SettlementFailed =>
        /\ escrows[1].state = COMPLETE
        /\ escrows[1].resolution_notes = "notes"
        /\ escrows[1].completed_at = "set"
        /\ Copies(RowsOf(1, EV_RESOLVED)) = 1
        /\ \A r \in RowsOf(1, EV_RESOLVED) : r.tx_hash = "None"

C24_Witness ==
    /\ SettlementFailed
    /\ CustodialConfigured
    /\ escrows[1].state = COMPLETE
    /\ RowsOf(1, EV_RESOLVED) # {}

(* C25: at most one escrow is stored for a contract, however the
   create_escrow requests for it interleave. *)
C25_OneEscrowPerContract ==
    \A a, b \in DOMAIN escrows :
        escrows[a].contract_id = escrows[b].contract_id => a = b

(* C26: the cursor moves only when the events of the window were fetched
   from the ledger: a poll in which a ledger call failed, for one event type
   or for all, leaves the cursor where it was and starts no batch, so that
   the same window is fetched again. *)
C26_CursorAfterFetch ==
    [][faults' < faults =>
          /\ cursor' = cursor
          /\ recPc' = "poll"
          /\ UNCHANGED <<escrows, events>>]_vars

(* C27: the escrow whose custodial funding was lost locally stands
   awaiting_fund without a trade id, and the ledger holds the trade's
   EscrowCreated event, naming the escrow, followed by its Funded event in
   the same block.  Once the reconciler, never killed, has fetched that
   window without a failed ledger call and committed it, the escrow has the
   trade linked, has left awaiting_fund, and has an EscrowEvent for each of
   the two ledger events. *)
C27_SelfHeals ==
    (recPc = "poll" /\ cursor >= 2 /\ faults = MaxFaults /\ hist.crashes = 0) =>
        /\ escrows[1].onchain_trade_id = TradeId
        /\ escrows[1].state # AWAITING_FUND
        /\ \E r \in RowsOf(1, EV_CREATED) : r.tx_hash = "0xc7" /\ r.log_index = 0
        /\ \E r \in RowsOf(1, EV_FUNDED) : r.tx_hash = "0xc7" /\ r.log_index = 1

(* C28: while the reconciler process runs its cursor never decreases; a
   window is [cursor+1, min(cursor+BatchSize, height)]: the batch it starts
   holds events of these blocks only and its upper bound is not above the
   height; and the cursor moves to the upper bound of the window that
   started at cursor+1 and nowhere else, so the windows are adjacent. *)
C28_AdjacentWindows ==
    [][recPc # "down" =>
          /\ cursor' >= cursor
          /\ (recPc = "poll" /\ recPc' = "batch") =>
                /\ toBlock' = Min(cursor + BatchSize, height)
                /\ toBlock' <= height
                /\ \A i \in 1..Len(batch') :
                      batch'[i].blockNumber \in (cursor + 1)..toBlock'
          /\ recPc = "batch" =>
                /\ cursor < toBlock /\ toBlock <= height
                /\ toBlock <= cursor + BatchSize
          /\ cursor' # cursor =>
                /\ cursor' <= height
                /\ cursor' <= cursor + BatchSize
                /\ cursor' = (IF recPc = "batch" THEN toBlock
                              ELSE Min(cursor + BatchSize, height))]_vars

(* the reconciler, never killed, has completed the window [2, 101] as a
   batch and the window [102, 201] after it *)
C28_Witness ==
    /\ recPc = "poll"
    /\ cursor = 1 + 2 * BatchSize
    /\ hist.crashes = 0
    /\ \E r \in BagToSet(events) : r.block_number = 2

(* ledger order: block number, then position in the block *)
NotAfter(a, b) ==
    \/ a.blockNumber < b.blockNumber
    \/ a.blockNumber = b.blockNumber /\ a.logIndex <= b.logIndex

(* C29: the events of a batch are applied in ascending (block number, log
   position) order: the event a step of the batch takes is not after any
   event the batch still holds, and the batch of a window holds every entry
   of the window the ledger delivered. *)
C29_AscendingOrder ==
    [][/\ (recPc = "batch" /\ recPc' = "batch" /\ batch # <<>>) =>
             /\ batch' = Tail(batch)
             /\ \A i \in 1..Len(batch') : NotAfter(Head(batch), batch'[i])
       /\ (recPc = "poll" /\ recPc' = "batch") =>
             {batch'[i] : i \in 1..Len(batch')} =
                 {l \in logs : l.blockNumber \in (cursor + 1)..toBlock'}]_vars

(* the batch has applied DeliveryConfirmed of block 2, position 0, which the
   filters deliver after Funded of block 2, position 1, and has Funded next *)
C29_Witness ==
    /\ recPc = "batch"
    /\ batch # <<>>
    /\ Head(batch).event = "Funded"
    /\ \E r \in BagToSet(pending) :
          r.event_type = EV_DELIVERY_CONFIRMED /\ r.block_number = 2

(* a ledger event the reconciler can apply: its escrow is linked *)
HasEscrow(l) ==
    IF l.event = "EscrowCreated"
    THEN l.escrow_id \in DOMAIN escrows
    ELSE \E e \in DOMAIN escrows : escrows[e].onchain_trade_id = l.tradeId

HasRow(l) ==
    \E r \in BagToSet(events) :
        r.tx_hash = l.transactionHash /\ r.log_index = l.logIndex

(* C30: an event that cannot be resolved, is of no known type or whose
   handling raises is skipped alone: once the cursor has passed the window
   it has no EscrowEvent, and every other event of the window has one. *)
C30_SkippedAlone ==
    (recPc = "poll" /\ cursor = height) =>
        \A l \in logs : HasEscrow(l) <=> HasRow(l)

(* the same with no event in the window whose lookup the database rejects *)
C30_UnresolvedSkippedAlone ==
    (recPc = "poll" /\ cursor = height /\ ~\E l \in logs : Aborts(l)) =>
        \A l \in logs : HasEscrow(l) <=> HasRow(l)

(* the window held the event of trade 8 next to events of trade 7 and is
   committed *)
C30_Reached ==
    /\ recPc = "poll"
    /\ cursor = height
    /\ \E l \in logs : ~HasEscrow(l) /\ l.event = "Funded"
    /\ \E l \in logs : HasEscrow(l) /\ HasRow(l)
    /\ ~\E l \in logs : Aborts(l)

(* C31: a reconciler that starts takes as its cursor the highest block number
   of the stored EscrowEvents that carry one, or the ledger height less the
   look-back, floored at 0, when none carries one; the cursor it starts with
   is below the block of every ledger event of a known escrow that has no
   EscrowEvent yet. *)
C31_CursorAtStart ==
    [][(recPc = "down" /\ recPc' = "poll") =>
          LET numbered == {r.block_number : r \in
                             {q \in BagToSet(events) : q.block_number # NoInt}}
          IN /\ cursor' = IF numbered # {}
                          THEN CHOOSE n \in numbered : \A k \in numbered : k <= n
                          ELSE Max(0, height - LookBack)
             /\ \A l \in logs :
                   (Resolvable(l) /\ ~Recorded(l, events)) =>
                       cursor' < l.blockNumber]_vars

(* C32: an escrow goes from FUNDED to COMPLETE by a timeout refund only when
   the clock is at or after its timeout_at; a TimeoutRefund event applied
   before that leaves the escrow FUNDED. *)
C32_TimeoutGuard ==
    [][\A e \in DOMAIN escrows :
          (/\ escrows[e].state = FUNDED
           /\ escrows'[e].state = COMPLETE
           /\ \E r \in BagToSet(events') :
                 /\ r.escrow_id = e
                 /\ r.event_type = EV_TIMEOUT_REFUND
                 /\ ~BagIn(r, events))
          => now >= escrows[e].timeout_at]_vars

(* a timeout refund completed the escrow at or after its timeout_at *)
C32_AfterTimeout ==
    /\ escrows[1].state = COMPLETE
    /\ now = escrows[1].timeout_at
    /\ cursor = height
    /\ \E r \in BagToSet(events) : r.event_type = EV_TIMEOUT_REFUND

(* C33: the submissions of the custodial account are serialised: no two of
   them are built and sent with the same nonce. *)
C33_DistinctNonces ==
    \A i, j \in DOMAIN custody.sent :
        i # j => custody.sent[i].nonce # custody.sent[j].nonce

(* two submissions one after the other, the second built after the first was
   mined, carry different nonces *)
C33_Sequential ==
    /\ Len(custody.sent) = 2
    /\ custody.sent[1].nonce = 0
    /\ custody.sent[2].nonce = 1

Funded(row) == row.state \in {FUNDED, DISPUTED, COMPLETE}

(* C34: a transaction hash accepted as the funding proof of one escrow is
   accepted for no other: no two funded escrows carry the same
   onchain_tx_hash. *)
C34_ProofUsedOnce ==
    \A e, f \in DOMAIN escrows :
        (e # f /\ Funded(escrows[e]) /\ Funded(escrows[f])) =>
            escrows[e].onchain_tx_hash # escrows[f].onchain_tx_hash

(* two escrows of different amounts, each funded by the payment of its own
   amount *)
C34_OwnProofs ==
    /\ Funded(escrows[1]) /\ escrows[1].onchain_tx_hash = "0xfund"
    /\ Funded(escrows[2]) /\ escrows[2].onchain_tx_hash = "0xfun2"

(* C35: the reconciler moves an escrow from AWAITING_FUND to FUNDED only on
   a Funded event that carries the escrow's amount_wei: the transaction an
   escrow was funded by is that of such an event. *)
C35_ExactAmountFunds ==
    \A e \in DOMAIN escrows :
        Funded(escrows[e]) =>
            \E l \in logs :
                /\ l.event = "Funded"
                /\ l.transactionHash = escrows[e].onchain_tx_hash
                /\ l.amount = escrows[e].amount_wei

(* the escrow is funded by the event of its own amount *)
C35_FundedByAmount ==
    /\ Funded(escrows[1])
    /\ escrows[1].onchain_tx_hash = "0xf7"
    /\ cursor = height

(* C36: an escrow that is FUNDED, DISPUTED or COMPLETE has is_confirmed
   true, confirmations at or above the threshold, and funded_at and
   onchain_tx_hash set, whichever path funded it. *)
C36_FundedIsConfirmed ==
    \A e \in DOMAIN escrows :
        Funded(escrows[e]) =>
            /\ escrows[e].is_confirmed
            /\ escrows[e].confirmations >= ConfirmationsRequired
            /\ escrows[e].funded_at # "None"
            /\ escrows[e].onchain_tx_hash # "None"

(* C37: an EscrowCreated event links a trade only to an escrow that has
   none: the onchain_trade_id of an escrow, once set, never changes, its
   onchain_tx_hash changes no more except when a Funded event moves it from
   AWAITING_FUND to FUNDED, and no two escrows hold the same trade id. *)
C37_LinkedOnce ==
    [][/\ \A e \in DOMAIN escrows :
             escrows[e].onchain_trade_id # NoInt =>
                 /\ escrows'[e].onchain_trade_id = escrows[e].onchain_trade_id
                 /\ escrows'[e].onchain_tx_hash # escrows[e].onchain_tx_hash =>
                        /\ escrows[e].state = AWAITING_FUND
                        /\ escrows'[e].state = FUNDED
       /\ \A e, f \in DOMAIN escrows' :
             (e # f /\ escrows'[e].onchain_trade_id # NoInt) =>
                 escrows'[e].onchain_trade_id # escrows'[f].onchain_trade_id]_vars

(* escrow 2, which had no trade, is linked to trade 8; escrow 1 still holds
   trade 7 *)
C37_FirstLink ==
    /\ escrows[2].onchain_trade_id = 8
    /\ escrows[2].onchain_tx_hash = "0xc8"
    /\ escrows[1].onchain_trade_id = TradeId
    /\ cursor = height

(* C38: the amount a resolve_dispute request that passed its checks records
   in its resolved event, and the amount of the settlement transaction it
   submitted, is above 0 and at most the escrow's amount_wei, for every
   outcome. *)
C38_SettlementInRange ==
    \A s \in Slots :
        (reqs[s].op = "resolve" /\ reqs[s].pc \in {"commit", "event"}) =>
            LET row == reqs[s].loaded
                InRange(a) == 0 < a /\ a <= row.amount_wei
            IN /\ InRange(reqs[s].ev.payload.amount_wei)
               /\ reqs[s].input.tx_hash # "None" =>
                     InRange(hist.settled.amount_wei)

(* a partial resolution of 40 out of 100 is recorded and settled on-chain *)
C38_PartialInRange ==
    \E s \in Slots :
        /\ reqs[s].op = "resolve" /\ reqs[s].pc = "event"
        /\ reqs[s].input.outcome = "partial"
        /\ reqs[s].ev.payload.amount_wei = 40
        /\ reqs[s].input.tx_hash # "None"
        /\ hist.settled.amount_wei = 40

(* a partial resolution of more than the escrow holds is recorded *)
C38_AboveAmount ==
    \E s \in Slots :
        /\ reqs[s].op = "resolve" /\ reqs[s].pc = "event"
        /\ reqs[s].ev.payload.amount_wei > reqs[s].loaded.amount_wei

(* C39: the buyer_id and seller_id of every stored escrow are those of the
   contract it references. *)
C39_PartiesOfContract ==
    \A e \in DOMAIN escrows :
        /\ escrows[e].contract_id \in DOMAIN Contracts
        /\ escrows[e].buyer_id = Contracts[escrows[e].contract_id].buyer_id
        /\ escrows[e].seller_id = Contracts[escrows[e].contract_id].seller_id

(* the escrow of the contract is stored with the contract's parties and its
   created event *)
C39_ContractParties ==
    /\ Len(escrows) = 1
    /\ escrows[1].buyer_id = Contracts[1].buyer_id
    /\ escrows[1].seller_id = Contracts[1].seller_id
    /\ reply.op = "create" /\ reply.res = 200

====
